---- MODULE Spec2Model ----
(***************************************************************************)
(* A model of the trackmate frontend: the deep-link codec (lib/deeplinks), *)
(* the timing page's hand-off to the native app, the phone-session ingest  *)
(* endpoint and the laps page's manual entry.                              *)
(*                                                                         *)
(* JavaScript strings that are taken apart or encoded are modelled as      *)
(* tuples of one-character strings; identifiers that are only compared are *)
(* modelled as TLA+ strings.                                               *)
(***************************************************************************)
EXTENDS Integers, Sequences, FiniteSets, TLC

(***************************************************************************)
(* State                                                                   *)
(***************************************************************************)

\* A call of buildTimingDeepLink.
VARIABLES
  dlParams,        \* the argument of a call of buildTimingDeepLink
  dlCalled,        \* whether the call has returned
  dlResult         \* what it returned

linkVars == <<dlParams, dlCalled, dlResult>>

\* The timing page.
VARIABLES
  mounted,             \* the TimingPage component is mounted
  docHidden,           \* document.hidden
  storageAvailable,    \* localStorage can be read and written
  storedConfirmed,     \* localStorage[STORAGE_KEY] = 'true'
  loading,
  isAuthenticated,
  selectedTrackId,
  selectedCarId,
  conditions,
  hasConfirmed,
  hasLoadedStorage,
  showConfirmModal,
  dontShowAgain,
  showFallbackModal,
  lastDeepLink,
  hasAutoOpenedRef,
  fallbackTimeoutRef,  \* 0 (null) or the handle of the last fallback timer armed
  timers,              \* the timers set and neither fired nor cleared
  locationHref,        \* the last URL assigned to window.location.href
  dispatches,          \* how many times window.location.href was assigned
  everConfirmed        \* the user has confirmed the confirmation modal

timingVars == <<mounted, docHidden, storageAvailable, storedConfirmed, loading,
                isAuthenticated, selectedTrackId, selectedCarId, conditions,
                hasConfirmed, hasLoadedStorage, showConfirmModal, dontShowAgain,
                showFallbackModal, lastDeepLink, hasAutoOpenedRef,
                fallbackTimeoutRef, timers, locationHref, dispatches,
                everConfirmed>>

\* The store's tables that are written, and the phone-session endpoint.
VARIABLES
  phone_sessions,  \* the rows of table phone_sessions, in insertion order
  lapsTable,       \* the rows of table laps, in insertion order
  request,         \* the request the endpoint handled last
  response,        \* its response
  trace            \* what the handler called, in order, while handling it

storeVars == <<phone_sessions, lapsTable>>

ingestVars == <<request, response, trace>>

\* The laps page (LapsPage).
VARIABLES
  laps,            \* the driver's laps as the page lists them
  errorMsg,        \* the single-lap form's error, "" for null
  qsLaps,          \* the staged laps of the quick session
  qsNextId,        \* the id the next staged lap gets
  qsSaving,        \* a quick-session save is awaiting the store
  qsError,         \* the quick session's error, "" for null
  qsSuccess,       \* the quick session's success message is shown
  qsInsert,        \* what the store answers to the save that is awaited
  entry            \* the minutes, seconds and milliseconds submitted last

lapsPageVars ==
  <<laps, errorMsg, qsLaps, qsNextId, qsSaving, qsError, qsSuccess, qsInsert,
    entry>>

\* A function of the pages applied to an argument.
VARIABLES
  fnArg,           \* the argument
  fnDone,          \* the function has returned
  fnResult         \* what it returned

fnVars == <<fnArg, fnDone, fnResult>>

\* The pages that read the tables: the track detail page, the leaderboards
\* page, the driver page, the drivers page and the home page.
VARIABLES
  profilesTable,   \* the rows of table profiles
  sessionUser,     \* the driver signed in at the browser, "none" for nobody
  page             \* the page the browser shows: its name, route and state

viewVars == <<profilesTable, sessionUser, page>>

\* The public-flag updates of the laps page that are under way.
VARIABLES
  toggles,         \* the updates sent and not yet answered
  toggleCount,     \* how many updates the page has sent
  toggleFailed     \* whether a click on a checkbox ended in an error

toggleVars == <<toggles, toggleCount, toggleFailed>>

\* The navigation bar (TopNav) and the auth service it listens to.
VARIABLES
  navIsAuthenticated,  \* isAuthenticated: "null" (unknown), "false" or "true"
  navUserId,           \* userId, "none" for null
  ctaState,            \* "loading", "ready" or "error"
  pathname,            \* the route shown
  authSession,         \* the user of the auth service's session, or "none"
  navCheck,            \* the getUser call checkAuth is awaiting
  navLastEvent         \* the auth event delivered last, "none" before any

navVars ==
  <<navIsAuthenticated, navUserId, ctaState, pathname, authSession, navCheck,
    navLastEvent>>

\* The operation that ran last.
VARIABLES ev

vars ==
  <<linkVars, timingVars, storeVars, ingestVars, lapsPageVars, fnVars,
    viewVars, toggleVars, navVars, ev>>

\* What the operations of one part leave alone.
outsideLink == <<timingVars, storeVars, ingestVars, lapsPageVars, fnVars,
   viewVars, toggleVars, navVars>>

outsideTiming == <<linkVars, storeVars, ingestVars, lapsPageVars, fnVars,
   viewVars, toggleVars, navVars>>

outsideIngest == <<linkVars, timingVars, lapsPageVars, fnVars,
   viewVars, toggleVars, navVars>>

outsideLapsPage == <<linkVars, timingVars, ingestVars, fnVars,
   viewVars, toggleVars, navVars>>

outsideFn ==
  <<linkVars, timingVars, storeVars, ingestVars, lapsPageVars, viewVars,
    toggleVars, navVars>>

outsideViews ==
  <<linkVars, timingVars, phone_sessions, ingestVars, lapsPageVars, fnVars,
    toggleVars, navVars>>

(***************************************************************************)
(* Characters and strings                                                  *)
(***************************************************************************)

Lower == {"a","b","c","d","e","f","g","h","i","j","k","l","m",
          "n","o","p","q","r","s","t","u","v","w","x","y","z"}

Upper == {"A","B","C","D","E","F","G","H","I","J","K","L","M",
          "N","O","P","Q","R","S","T","U","V","W","X","Y","Z"}

Digit == {"0","1","2","3","4","5","6","7","8","9"}

AlphaNum == Lower \cup Upper \cup Digit

\* The two hexadecimal digits of the (ASCII) characters the model uses outside
\* the alphanumerics; "%" followed by them is the character's percent-encoding.
HexOf(c) ==
  CASE c = " " -> <<"2","0">>
    [] c = "!" -> <<"2","1">>
    [] c = "%" -> <<"2","5">>
    [] c = "&" -> <<"2","6">>
    [] c = "+" -> <<"2","B">>
    [] c = "/" -> <<"2","F">>
    [] c = ":" -> <<"3","A">>
    [] c = "=" -> <<"3","D">>
    [] c = "?" -> <<"3","F">>
    [] OTHER   -> <<"0","0">>

PercentEncode(c) == <<"%">> \o HexOf(c)

\* encodeURIComponent leaves A-Z a-z 0-9 - _ . ! ~ * ' ( ) alone.
UriUnreserved == AlphaNum \cup {"-", "_", ".", "!", "~", "*", "'", "(", ")"}

EncodeUriChar(c) == IF c \in UriUnreserved THEN <<c>> ELSE PercentEncode(c)

RECURSIVE encodeURIComponent(_)
encodeURIComponent(s) ==
  IF s = <<>> THEN <<>>
  ELSE EncodeUriChar(Head(s)) \o encodeURIComponent(Tail(s))

\* The application/x-www-form-urlencoded serializer that
\* URLSearchParams.toString() applies to every name and value: it leaves
\* A-Z a-z 0-9 * - . _ alone, writes a space as "+", and percent-encodes the
\* rest (a "%" included).
FormUnreserved == AlphaNum \cup {"*", "-", ".", "_"}

FormEncodeChar(c) ==
  IF c \in FormUnreserved THEN <<c>>
  ELSE IF c = " " THEN <<"+">>
  ELSE PercentEncode(c)

RECURSIVE FormEncode(_)
FormEncode(s) ==
  IF s = <<>> THEN <<>>
  ELSE FormEncodeChar(Head(s)) \o FormEncode(Tail(s))

\* URLSearchParams: a list of <<name, value>> pairs. set(name, value) replaces
\* the value of the first pair of that name and drops the others, or appends.
RECURSIVE DropNamed(_, _)
DropNamed(sp, name) ==
  IF sp = <<>> THEN <<>>
  ELSE IF sp[1][1] = name THEN DropNamed(Tail(sp), name)
  ELSE <<sp[1]>> \o DropNamed(Tail(sp), name)

ParamsSet(sp, name, value) ==
  IF \E i \in 1..Len(sp) : sp[i][1] = name
  THEN LET first == CHOOSE i \in 1..Len(sp) :
                      /\ sp[i][1] = name
                      /\ \A j \in 1..(i - 1) : sp[j][1] # name
       IN  SubSeq(sp, 1, first - 1) \o << <<name, value>> >>
           \o DropNamed(SubSeq(sp, first + 1, Len(sp)), name)
  ELSE Append(sp, <<name, value>>)

RECURSIVE ParamsToString(_)
ParamsToString(sp) ==
  IF sp = <<>> THEN <<>>
  ELSE FormEncode(sp[1][1]) \o <<"=">> \o FormEncode(sp[1][2])
       \o (IF Len(sp) > 1 THEN <<"&">> \o ParamsToString(Tail(sp)) ELSE <<>>)

(***************************************************************************)
(* lib/deeplinks                                                           *)
(***************************************************************************)

DEEP_LINK_VERSION == <<"1">>

DEEP_LINK_SCHEME == <<"t","r","a","c","k","m","a","t","e",":","/","/">>

TIMING_PATH == <<"t","i","m","i","n","g">>

\* An optional string argument: undefined, or a string (possibly empty).
Undefined == [def |-> FALSE, s |-> <<>>]

Str(s) == [def |-> TRUE, s |-> s]

\* JavaScript truthiness of an optional string.
Truthy(x) == x.def /\ x.s # <<>>

\* A string-or-null result.
Null == [null |-> TRUE, s |-> <<>>]

Some(s) == [null |-> FALSE, s |-> s]

\* A plausible slip: conditions is appended before carId.
buildTimingDeepLink_swapped(params) ==
  IF ~Truthy(params.trackId) THEN Null
  ELSE LET sp0 == ParamsSet(<<>>, <<"v">>, DEEP_LINK_VERSION)
           sp1 == ParamsSet(sp0, <<"t","r","a","c","k","I","d">>,
                            encodeURIComponent(params.trackId.s))
           sp2 == IF Truthy(params.conditions)
                  THEN ParamsSet(sp1, <<"c","o","n","d","i","t","i","o","n","s">>,
                                 encodeURIComponent(params.conditions.s))
                  ELSE sp1
           sp3 == IF Truthy(params.carId)
                  THEN ParamsSet(sp2, <<"c","a","r","I","d">>,
                                 encodeURIComponent(params.carId.s))
                  ELSE sp2
       IN  Some(DEEP_LINK_SCHEME \o TIMING_PATH \o <<"?">> \o ParamsToString(sp3))

buildTimingDeepLink(params) ==
  IF ~Truthy(params.trackId) THEN Null
  ELSE LET sp0 == ParamsSet(<<>>, <<"v">>, DEEP_LINK_VERSION)
           sp1 == ParamsSet(sp0, <<"t","r","a","c","k","I","d">>,
                            encodeURIComponent(params.trackId.s))
           sp2 == IF Truthy(params.carId)
                  THEN ParamsSet(sp1, <<"c","a","r","I","d">>,
                                 encodeURIComponent(params.carId.s))
                  ELSE sp1
           sp3 == IF Truthy(params.conditions)
                  THEN ParamsSet(sp2, <<"c","o","n","d","i","t","i","o","n","s">>,
                                 encodeURIComponent(params.conditions.s))
                  ELSE sp2
       IN  Some(DEEP_LINK_SCHEME \o TIMING_PATH \o <<"?">> \o ParamsToString(sp3))

VALID_CONDITIONS == {<<"d","r","y">>, <<"d","a","m","p">>, <<"w","e","t">>}

isValidConditions(value) == value \in VALID_CONDITIONS

\* A slip: a value that is not known is passed on as it is.
normalizeConditions_passthrough(ui) ==
  CASE ui = <<"d","r","y","_","w","a","r","m">> -> Str(<<"d","r","y">>)
    [] ui = <<"d","r","y","_","c","o","o","l">> -> Str(<<"d","r","y">>)
    [] ui = <<"d","a","m","p">>                 -> Str(<<"d","a","m","p">>)
    [] ui = <<"w","e","t">>                     -> Str(<<"w","e","t">>)
    [] OTHER                                    -> Str(ui)

\* normalizeConditions(uiConditions): a wire value, or undefined.
normalizeConditions(ui) ==
  CASE ui = <<"d","r","y","_","w","a","r","m">> -> Str(<<"d","r","y">>)
    [] ui = <<"d","r","y","_","c","o","o","l">> -> Str(<<"d","r","y">>)
    [] ui = <<"d","r","y">>                     -> Str(<<"d","r","y">>)
    [] ui = <<"d","a","m","p">>                 -> Str(<<"d","a","m","p">>)
    [] ui = <<"w","e","t">>                     -> Str(<<"w","e","t">>)
    [] OTHER                                    -> Undefined

(***************************************************************************)
(* Deep-link builder, applied to arguments (specification SpecLink)        *)
(***************************************************************************)

abc123 == <<"a","b","c","-","1","2","3">>

def456 == <<"d","e","f","-","4","5","6">>

DlTrackIds == {Undefined, Str(<<>>), Str(abc123), Str(<<"a"," ","b">>),
               Str(<<"a","&","b","=","c">>), Str(<<"t","/","1","%">>)}

DlCarIds == {Undefined, Str(<<>>), Str(def456), Str(<<"c","&","d">>)}

DlConditions == {Undefined, Str(<<>>)} \cup {Str(c) : c \in VALID_CONDITIONS}

LinkInit ==
  /\ dlParams \in [trackId : DlTrackIds, carId : DlCarIds, conditions : DlConditions]
  /\ dlCalled = FALSE
  /\ dlResult = Null

LinkIdle ==
  /\ dlParams = [trackId |-> Undefined, carId |-> Undefined, conditions |-> Undefined]
  /\ dlCalled = FALSE
  /\ dlResult = Null

CallBuildTimingDeepLink ==
  /\ ~dlCalled
  /\ dlCalled' = TRUE
  /\ dlResult' = buildTimingDeepLink(dlParams)
  /\ ev' = "buildTimingDeepLink"
  /\ UNCHANGED dlParams
  /\ UNCHANGED outsideLink

(***************************************************************************)
(* Reading a built link back: the query split at "&" and "="               *)
(***************************************************************************)

StartsWith(s, prefix) ==
  Len(s) >= Len(prefix) /\ SubSeq(s, 1, Len(prefix)) = prefix

\* The pieces of s between the occurrences of the character sep.
RECURSIVE SplitOn(_, _)
SplitOn(s, sep) ==
  IF \E i \in 1..Len(s) : s[i] = sep
  THEN LET i == CHOOSE k \in 1..Len(s) :
                  s[k] = sep /\ \A j \in 1..(k - 1) : s[j] # sep
       IN  <<SubSeq(s, 1, i - 1)>> \o SplitOn(SubSeq(s, i + 1, Len(s)), sep)
  ELSE <<s>>

LinkPrefix == DEEP_LINK_SCHEME \o TIMING_PATH \o <<"?">>

\* The name=value pieces of a link's query, each split at "=".
QueryPairs(url) ==
  LET pieces == SplitOn(SubSeq(url, Len(LinkPrefix) + 1, Len(url)), "&")
  IN  [i \in 1..Len(pieces) |-> SplitOn(pieces[i], "=")]

QueryNames(url) == [i \in 1..Len(QueryPairs(url)) |-> QueryPairs(url)[i][1]]

ExpectedNames(params) ==
  << <<"v">>, <<"t","r","a","c","k","I","d">> >>
  \o (IF Truthy(params.carId) THEN << <<"c","a","r","I","d">> >> ELSE <<>>)
  \o (IF Truthy(params.conditions)
      THEN << <<"c","o","n","d","i","t","i","o","n","s">> >> ELSE <<>>)

ExampleLinkTrackOnly ==
  <<"t","r","a","c","k","m","a","t","e",":","/","/","t","i","m","i","n",
  "g","?","v","=","1","&","t","r","a","c","k","I","d","=","a","b","c",
  "-","1","2","3">>

ExampleLinkFull ==
  <<"t","r","a","c","k","m","a","t","e",":","/","/","t","i","m","i","n",
  "g","?","v","=","1","&","t","r","a","c","k","I","d","=","a","b","c",
  "-","1","2","3","&","c","a","r","I","d","=","d","e","f","-","4","5",
  "6","&","c","o","n","d","i","t","i","o","n","s","=","d","r","y">>

\* C10: buildTimingDeepLink returns null exactly when trackId is falsy; otherwise
\* the result is 'trackmate://timing?' followed by name=value pairs whose names
\* are, in this order, v, trackId, carId only if carId is truthy, conditions
\* only if conditions is truthy, and nothing else, v being 1; the two documented
\* examples give the documented links.
C10_BuildShape ==
  dlCalled =>
    /\ dlResult.null <=> ~Truthy(dlParams.trackId)
    /\ ~dlResult.null =>
         /\ StartsWith(dlResult.s, LinkPrefix)
         /\ QueryNames(dlResult.s) = ExpectedNames(dlParams)
         /\ \A i \in 1..Len(QueryPairs(dlResult.s)) :
              Len(QueryPairs(dlResult.s)[i]) = 2
         /\ QueryPairs(dlResult.s)[1][2] = <<"1">>
    /\ (dlParams.trackId = Str(abc123) /\ ~Truthy(dlParams.carId)
        /\ ~Truthy(dlParams.conditions))
         => dlResult = Some(ExampleLinkTrackOnly)
    /\ (dlParams.trackId = Str(abc123) /\ dlParams.carId = Str(def456)
        /\ dlParams.conditions = Str(<<"d","r","y">>))
         => dlResult = Some(ExampleLinkFull)

\* A call with all three parameters given has returned its link.
C10_Witness ==
  /\ dlCalled
  /\ dlParams = [trackId |-> Str(abc123), carId |-> Str(def456),
                 conditions |-> Str(<<"d","r","y">>)]
  /\ dlResult = Some(ExampleLinkFull)

\* The character whose percent-encoding is "%" followed by the digits hi, lo.
CharOfHex(hi, lo) ==
  LET known == {" ", "!", "%", "&", "+", "/", ":", "=", "?"}
  IN  IF \E c \in known : HexOf(c) = <<hi, lo>>
      THEN CHOOSE c \in known : HexOf(c) = <<hi, lo>>
      ELSE "?"

\* s percent-decoded once.
RECURSIVE PercentDecode(_)
PercentDecode(s) ==
  IF s = <<>> THEN <<>>
  ELSE IF s[1] = "%" /\ Len(s) >= 3
  THEN <<CharOfHex(s[2], s[3])>> \o PercentDecode(SubSeq(s, 4, Len(s)))
  ELSE <<s[1]>> \o PercentDecode(Tail(s))

\* The value of the query parameter name of a link, percent-decoded once;
\* <<"absent">> if the link has no such parameter.
DecodedParam(url, name) ==
  LET pairs == QueryPairs(url)
      at == {i \in 1..Len(pairs) : pairs[i][1] = name}
  IN  IF at = {} THEN <<"absent">>
      ELSE PercentDecode(pairs[CHOOSE i \in at : TRUE][2])

\* C11: a consumer that splits the query of a built link and percent-decodes
\* each value once recovers the trackId, and the carId and conditions that
\* were given; each value stands in the link percent-encoded once.
C11_RoundTrip ==
  (dlCalled /\ ~dlResult.null) =>
    /\ DecodedParam(dlResult.s, <<"t","r","a","c","k","I","d">>) = dlParams.trackId.s
    /\ Truthy(dlParams.carId) =>
         DecodedParam(dlResult.s, <<"c","a","r","I","d">>) = dlParams.carId.s
    /\ Truthy(dlParams.conditions) =>
         DecodedParam(dlResult.s, <<"c","o","n","d","i","t","i","o","n","s">>)
           = dlParams.conditions.s

(***************************************************************************)
(* The timing page (app/timing/page.tsx)                                   *)
(***************************************************************************)

DEEP_LINK_TIMEOUT_MS == 1200

AUTO_OPEN_DELAY_MS == 100

\* How many deep-link dispatches a behaviour of the model may hold.
MaxDispatches == 2

t1 == <<"t","1">>

c1 == <<"c","1">>

dry_warm == <<"d","r","y","_","w","a","r","m">>

TrackOptions == {<<>>, t1}

CarOptions == {<<>>, c1}

ConditionOptions == {<<>>, dry_warm}

\* The selections a render closes over.
Selection(track, car, cond) == [track |-> track, car |-> car, cond |-> cond]

CurrentSelection == Selection(selectedTrackId, selectedCarId, conditions)

NoSelection == Selection(<<>>, <<>>, <<>>)

getDeepLink(sel) ==
  IF sel.track = <<>> THEN Null
  ELSE buildTimingDeepLink(
         [trackId    |-> Str(sel.track),
          carId      |-> IF sel.car # <<>> THEN Str(sel.car) ELSE Undefined,
          conditions |-> IF sel.cond # <<>> THEN normalizeConditions(sel.cond)
                         ELSE Undefined])

FallbackTimer(id) ==
  [id |-> id, kind |-> "fallback", delay |-> DEEP_LINK_TIMEOUT_MS, sel |-> NoSelection]

AutoOpenTimer(sel) ==
  [id |-> 0, kind |-> "autoOpen", delay |-> AUTO_OPEN_DELAY_MS, sel |-> sel]

\* clearTimeout(handle): a handle of 0 (none) or of a timer no longer pending
\* clears nothing.
ClearTimeout(ts, handle) == {t \in ts : ~(t.kind = "fallback" /\ t.id = handle)}

\* A slip: the timer of the dispatch before is left pending.
attemptOpenTimingApp_keepsTimer(sel, fb, ts) ==
  LET url == getDeepLink(sel)
  IN  IF url.null
      THEN [dispatched |-> FALSE, lastDeepLink |-> lastDeepLink,
            showFallbackModal |-> fb, fallbackTimeoutRef |-> fallbackTimeoutRef,
            timers |-> ts, locationHref |-> locationHref, dispatches |-> dispatches]
      ELSE [dispatched |-> TRUE,
            lastDeepLink |-> IF mounted THEN url.s ELSE lastDeepLink,
            showFallbackModal |-> IF mounted THEN FALSE ELSE fb,
            fallbackTimeoutRef |-> dispatches + 1,
            timers |-> ts \cup {FallbackTimer(dispatches + 1)},
            locationHref |-> url,
            dispatches |-> dispatches + 1]

\* attemptOpenTimingApp, run by a closure over the selections sel, with
\* showFallbackModal = fb and the pending timers ts when it starts: the values it
\* leaves. A state setter called after the unmount changes nothing; the ref,
\* the navigation and setTimeout act all the same.
attemptOpenTimingApp(sel, fb, ts) ==
  LET url == getDeepLink(sel)
  IN  IF url.null
      THEN [dispatched |-> FALSE, lastDeepLink |-> lastDeepLink,
            showFallbackModal |-> fb, fallbackTimeoutRef |-> fallbackTimeoutRef,
            timers |-> ts, locationHref |-> locationHref, dispatches |-> dispatches]
      ELSE [dispatched |-> TRUE,
            lastDeepLink |-> IF mounted THEN url.s ELSE lastDeepLink,
            showFallbackModal |-> IF mounted THEN FALSE ELSE fb,
            fallbackTimeoutRef |-> dispatches + 1,
            timers |-> ClearTimeout(ts, fallbackTimeoutRef)
                         \cup {FallbackTimer(dispatches + 1)},
            locationHref |-> url,
            dispatches |-> dispatches + 1]

\* The state an attemptOpenTimingApp call leaves, but for timers and
\* hasAutoOpenedRef, which the effect that follows the render settles.
AttemptLeaves(r) ==
  /\ r.dispatches <= MaxDispatches
  /\ lastDeepLink' = r.lastDeepLink
  /\ showFallbackModal' = r.showFallbackModal
  /\ fallbackTimeoutRef' = r.fallbackTimeoutRef
  /\ locationHref' = r.locationHref
  /\ dispatches' = r.dispatches

NoAttempt == UNCHANGED <<lastDeepLink, fallbackTimeoutRef, locationHref, dispatches>>

\* The auto-open effect, run after a render with hasConfirmed = hc, the
\* selections sel and loading = ld, the pending timers being ts: it schedules
\* attemptOpenTimingApp of that render, once per mount.
AutoOpenEffect(hc, sel, ld, ts) ==
  IF mounted /\ hasLoadedStorage /\ hc /\ sel.track # <<>>
     /\ ~hasAutoOpenedRef /\ ~ld
  THEN /\ hasAutoOpenedRef' = TRUE
       /\ timers' = ts \cup {AutoOpenTimer(sel)}
  ELSE /\ hasAutoOpenedRef' = hasAutoOpenedRef
       /\ timers' = ts

Environment == <<mounted, docHidden, storageAvailable, storedConfirmed>>

\* The main view is rendered.
MainView == mounted /\ ~loading /\ isAuthenticated

\* The controls of the main view can be used: no modal overlay (fixed inset-0)
\* covers them.
MainControls == MainView /\ ~showConfirmModal /\ ~showFallbackModal

\* The confirmation modal can be used: it is rendered, and the fallback modal,
\* which is rendered after it and so above it, does not cover it.
ConfirmControls == MainView /\ showConfirmModal /\ ~showFallbackModal

\* loadData resolves: the user is signed in (authed) or not.
loadData(authed) ==
  /\ mounted /\ loading
  /\ loading' = FALSE
  /\ isAuthenticated' = authed
  /\ AutoOpenEffect(hasConfirmed, CurrentSelection, FALSE, timers)
  /\ ev' = "loadData"
  /\ UNCHANGED outsideTiming
  /\ NoAttempt
  /\ UNCHANGED <<Environment, selectedTrackId, selectedCarId, conditions,
                 hasConfirmed, hasLoadedStorage, showConfirmModal, dontShowAgain,
                 showFallbackModal, everConfirmed>>

setSelectedTrackId(t) ==
  /\ MainControls
  /\ selectedTrackId' = t
  /\ AutoOpenEffect(hasConfirmed, Selection(t, selectedCarId, conditions),
                    loading, timers)
  /\ ev' = "setSelectedTrackId"
  /\ UNCHANGED outsideTiming
  /\ NoAttempt
  /\ UNCHANGED <<Environment, loading, isAuthenticated, selectedCarId, conditions,
                 hasConfirmed, hasLoadedStorage, showConfirmModal, dontShowAgain,
                 showFallbackModal, everConfirmed>>

setSelectedCarId(c) ==
  /\ MainControls
  /\ selectedCarId' = c
  /\ AutoOpenEffect(hasConfirmed, Selection(selectedTrackId, c, conditions),
                    loading, timers)
  /\ ev' = "setSelectedCarId"
  /\ UNCHANGED outsideTiming
  /\ NoAttempt
  /\ UNCHANGED <<Environment, loading, isAuthenticated, selectedTrackId, conditions,
                 hasConfirmed, hasLoadedStorage, showConfirmModal, dontShowAgain,
                 showFallbackModal, everConfirmed>>

setConditions(k) ==
  /\ MainControls
  /\ conditions' = k
  /\ AutoOpenEffect(hasConfirmed, Selection(selectedTrackId, selectedCarId, k),
                    loading, timers)
  /\ ev' = "setConditions"
  /\ UNCHANGED outsideTiming
  /\ NoAttempt
  /\ UNCHANGED <<Environment, loading, isAuthenticated, selectedTrackId,
                 selectedCarId, hasConfirmed, hasLoadedStorage, showConfirmModal,
                 dontShowAgain, showFallbackModal, everConfirmed>>

\* A slip: the confirmation preference is not consulted.
handleOpenTimingAppClick_alwaysAsk ==
  /\ MainControls
  /\ ev' = "handleOpenTimingAppClick"
  /\ UNCHANGED outsideTiming
  /\ IF selectedTrackId = <<>>
     THEN UNCHANGED timingVars
     ELSE /\ showConfirmModal' = TRUE
          /\ UNCHANGED <<Environment, loading, isAuthenticated, selectedTrackId,
                         selectedCarId, conditions, hasConfirmed, hasLoadedStorage,
                         dontShowAgain, showFallbackModal, lastDeepLink,
                         hasAutoOpenedRef, fallbackTimeoutRef, timers,
                         locationHref, dispatches, everConfirmed>>

\* The handler of the 'Open Timing App' button. (The button is also rendered
\* disabled while no track is selected; the handler has its own guard.)
handleOpenTimingAppClick ==
  /\ MainControls
  /\ ev' = "handleOpenTimingAppClick"
  /\ UNCHANGED outsideTiming
  /\ IF selectedTrackId = <<>>
     THEN UNCHANGED timingVars
     ELSE IF ~hasConfirmed
     THEN /\ showConfirmModal' = TRUE
          /\ UNCHANGED <<Environment, loading, isAuthenticated, selectedTrackId,
                         selectedCarId, conditions, hasConfirmed, hasLoadedStorage,
                         dontShowAgain, showFallbackModal, lastDeepLink,
                         hasAutoOpenedRef, fallbackTimeoutRef, timers,
                         locationHref, dispatches, everConfirmed>>
     ELSE LET r == attemptOpenTimingApp(CurrentSelection, showFallbackModal, timers)
          IN  /\ AttemptLeaves(r)
              /\ AutoOpenEffect(hasConfirmed, CurrentSelection, loading, r.timers)
              /\ UNCHANGED <<Environment, loading, isAuthenticated, selectedTrackId,
                             selectedCarId, conditions, hasConfirmed,
                             hasLoadedStorage, showConfirmModal, dontShowAgain,
                             everConfirmed>>

setDontShowAgain(b) ==
  /\ ConfirmControls
  /\ dontShowAgain' = b
  /\ ev' = "setDontShowAgain"
  /\ UNCHANGED outsideTiming
  /\ NoAttempt
  /\ UNCHANGED <<Environment, loading, isAuthenticated, selectedTrackId,
                 selectedCarId, conditions, hasConfirmed, hasLoadedStorage,
                 showConfirmModal, showFallbackModal, hasAutoOpenedRef, timers,
                 everConfirmed>>

\* localStorage.setItem throws when the storage is not available, and then
\* setHasConfirmed is not reached.
handleConfirmModalConfirm ==
  /\ ConfirmControls
  /\ LET saved == dontShowAgain /\ storageAvailable
         hc    == hasConfirmed \/ saved
         r     == attemptOpenTimingApp(CurrentSelection, showFallbackModal, timers)
     IN  /\ storedConfirmed' = (storedConfirmed \/ saved)
         /\ hasConfirmed' = hc
         /\ showConfirmModal' = FALSE
         /\ AttemptLeaves(r)
         /\ AutoOpenEffect(hc, CurrentSelection, loading, r.timers)
  /\ everConfirmed' = TRUE
  /\ ev' = "handleConfirmModalConfirm"
  /\ UNCHANGED outsideTiming
  /\ UNCHANGED <<mounted, docHidden, storageAvailable, loading, isAuthenticated,
                 selectedTrackId, selectedCarId, conditions, hasLoadedStorage,
                 dontShowAgain>>

handleConfirmModalCancel ==
  /\ ConfirmControls
  /\ showConfirmModal' = FALSE
  /\ dontShowAgain' = FALSE
  /\ ev' = "handleConfirmModalCancel"
  /\ UNCHANGED outsideTiming
  /\ NoAttempt
  /\ UNCHANGED <<Environment, loading, isAuthenticated, selectedTrackId,
                 selectedCarId, conditions, hasConfirmed, hasLoadedStorage,
                 showFallbackModal, hasAutoOpenedRef, timers, everConfirmed>>

handleFallbackTryAgain ==
  /\ MainView /\ showFallbackModal
  /\ LET r == attemptOpenTimingApp(CurrentSelection, FALSE, timers)
     IN  /\ AttemptLeaves(r)
         /\ AutoOpenEffect(hasConfirmed, CurrentSelection, loading, r.timers)
  /\ ev' = "handleFallbackTryAgain"
  /\ UNCHANGED outsideTiming
  /\ UNCHANGED <<Environment, loading, isAuthenticated, selectedTrackId,
                 selectedCarId, conditions, hasConfirmed, hasLoadedStorage,
                 showConfirmModal, dontShowAgain, everConfirmed>>

handleFallbackCancel ==
  /\ MainView /\ showFallbackModal
  /\ showFallbackModal' = FALSE
  /\ ev' = "handleFallbackCancel"
  /\ UNCHANGED outsideTiming
  /\ NoAttempt
  /\ UNCHANGED <<Environment, loading, isAuthenticated, selectedTrackId,
                 selectedCarId, conditions, hasConfirmed, hasLoadedStorage,
                 showConfirmModal, dontShowAgain, hasAutoOpenedRef, timers,
                 everConfirmed>>

\* A slip: the fallback is shown without sampling document.hidden.
FallbackTimerFires_unsampled(t) ==
  /\ t \in timers /\ t.kind = "fallback"
  /\ timers' = timers \ {t}
  /\ showFallbackModal' = (mounted \/ showFallbackModal)
  /\ ev' = "FallbackTimerFires"
  /\ UNCHANGED outsideTiming
  /\ NoAttempt
  /\ UNCHANGED <<Environment, loading, isAuthenticated, selectedTrackId,
                 selectedCarId, conditions, hasConfirmed, hasLoadedStorage,
                 showConfirmModal, dontShowAgain, hasAutoOpenedRef, everConfirmed>>

\* The callback of the fallback timer t, DEEP_LINK_TIMEOUT_MS after it was set.
FallbackTimerFires(t) ==
  /\ t \in timers /\ t.kind = "fallback"
  /\ timers' = timers \ {t}
  /\ showFallbackModal' = IF mounted /\ ~docHidden THEN TRUE ELSE showFallbackModal
  /\ ev' = "FallbackTimerFires"
  /\ UNCHANGED outsideTiming
  /\ NoAttempt
  /\ UNCHANGED <<Environment, loading, isAuthenticated, selectedTrackId,
                 selectedCarId, conditions, hasConfirmed, hasLoadedStorage,
                 showConfirmModal, dontShowAgain, hasAutoOpenedRef, everConfirmed>>

\* The callback of the auto-open timer t: attemptOpenTimingApp of the render
\* that scheduled it.
AutoOpenTimerFires(t) ==
  /\ t \in timers /\ t.kind = "autoOpen"
  /\ LET r == attemptOpenTimingApp(t.sel, showFallbackModal, timers \ {t})
     IN  /\ AttemptLeaves(r)
         /\ timers' = r.timers
  /\ ev' = "AutoOpenTimerFires"
  /\ UNCHANGED outsideTiming
  /\ UNCHANGED <<Environment, loading, isAuthenticated, selectedTrackId,
                 selectedCarId, conditions, hasConfirmed, hasLoadedStorage,
                 showConfirmModal, dontShowAgain, hasAutoOpenedRef, everConfirmed>>

\* The page is backgrounded (an app switch) or comes back to the foreground.
VisibilityChange ==
  /\ docHidden' = ~docHidden
  /\ ev' = "VisibilityChange"
  /\ UNCHANGED outsideTiming
  /\ UNCHANGED <<mounted, storageAvailable, storedConfirmed, loading,
                 isAuthenticated, selectedTrackId, selectedCarId, conditions,
                 hasConfirmed, hasLoadedStorage, showConfirmModal, dontShowAgain,
                 showFallbackModal, lastDeepLink, hasAutoOpenedRef,
                 fallbackTimeoutRef, timers, locationHref, dispatches,
                 everConfirmed>>

\* The page is left (handleExit, or any navigation): the cleanup of the
\* unmount effect clears the timer fallbackTimeoutRef holds.
Unmount ==
  /\ mounted
  /\ mounted' = FALSE
  /\ timers' = ClearTimeout(timers, fallbackTimeoutRef)
  /\ ev' = "Unmount"
  /\ UNCHANGED outsideTiming
  /\ NoAttempt
  /\ UNCHANGED <<docHidden, storageAvailable, storedConfirmed, loading,
                 isAuthenticated, selectedTrackId, selectedCarId, conditions,
                 hasConfirmed, hasLoadedStorage, showConfirmModal, dontShowAgain,
                 showFallbackModal, hasAutoOpenedRef, everConfirmed>>

\* The page right after its mount effects: the stored flag has been read
\* (a read that throws leaves hasConfirmed false) and loadData is in flight.
TimingInit ==
  /\ mounted = TRUE
  /\ docHidden = FALSE
  /\ storageAvailable \in BOOLEAN
  /\ storedConfirmed \in BOOLEAN
  /\ loading = TRUE
  /\ isAuthenticated = FALSE
  /\ selectedTrackId = <<>>
  /\ selectedCarId = <<>>
  /\ conditions = <<>>
  /\ hasConfirmed = (storageAvailable /\ storedConfirmed)
  /\ hasLoadedStorage = TRUE
  /\ showConfirmModal = FALSE
  /\ dontShowAgain = FALSE
  /\ showFallbackModal = FALSE
  /\ lastDeepLink = <<>>
  /\ hasAutoOpenedRef = FALSE
  /\ fallbackTimeoutRef = 0
  /\ timers = {}
  /\ locationHref = Null
  /\ dispatches = 0
  /\ everConfirmed = FALSE

TimingIdle ==
  /\ mounted = FALSE
  /\ docHidden = FALSE
  /\ storageAvailable = TRUE
  /\ storedConfirmed = FALSE
  /\ loading = TRUE
  /\ isAuthenticated = FALSE
  /\ selectedTrackId = <<>>
  /\ selectedCarId = <<>>
  /\ conditions = <<>>
  /\ hasConfirmed = FALSE
  /\ hasLoadedStorage = FALSE
  /\ showConfirmModal = FALSE
  /\ dontShowAgain = FALSE
  /\ showFallbackModal = FALSE
  /\ lastDeepLink = <<>>
  /\ hasAutoOpenedRef = FALSE
  /\ fallbackTimeoutRef = 0
  /\ timers = {}
  /\ locationHref = Null
  /\ dispatches = 0
  /\ everConfirmed = FALSE

TimingNext ==
  \/ \E authed \in BOOLEAN : loadData(authed)
  \/ \E t \in TrackOptions : setSelectedTrackId(t)
  \/ \E c \in CarOptions : setSelectedCarId(c)
  \/ \E k \in ConditionOptions : setConditions(k)
  \/ handleOpenTimingAppClick
  \/ \E b \in BOOLEAN : setDontShowAgain(b)
  \/ handleConfirmModalConfirm
  \/ handleConfirmModalCancel
  \/ handleFallbackTryAgain
  \/ handleFallbackCancel
  \/ \E t \in timers : FallbackTimerFires(t)
  \/ \E t \in timers : AutoOpenTimerFires(t)
  \/ VisibilityChange
  \/ Unmount

(***************************************************************************)
(* normalizeConditions and getDeepLink, applied to arguments               *)
(* (specification SpecConditions)                                          *)
(***************************************************************************)

FnIdle ==
  /\ fnArg = "none"
  /\ fnDone = FALSE
  /\ fnResult = "none"

\* The values of the conditions select, the wire values and other strings.
UiConditions ==
  {<<>>,
   <<"d","r","y","_","w","a","r","m">>,
   <<"d","r","y","_","c","o","o","l">>,
   <<"d","a","m","p">>,
   <<"w","e","t">>,
   <<"d","r","y">>,
   <<"D","R","Y">>,
   <<"d","r","y","_">>,
   <<"d","r","y","_","h","o","t">>,
   <<"d","a","m","p"," ">>,
   <<"W","e","t">>,
   <<"s","n","o","w">>,
   <<"d">>,
   <<"w","a","r","m">>}

ConditionsInit ==
  /\ fnArg \in {Selection(track, car, ui) :
                  track \in {<<>>, t1, abc123}, car \in {<<>>, c1, def456},
                  ui \in UiConditions}
  /\ fnDone = FALSE
  /\ fnResult = "none"

\* normalizeConditions is applied to the conditions of fnArg, and getDeepLink
\* to fnArg as the page's selections.
CallNormalizeConditions ==
  /\ ~fnDone
  /\ fnDone' = TRUE
  /\ fnResult' = [normalized |-> normalizeConditions(fnArg.cond),
                  link |-> getDeepLink(fnArg)]
  /\ ev' = "normalizeConditions"
  /\ UNCHANGED fnArg
  /\ UNCHANGED outsideFn

(***************************************************************************)
(* normalizeConditions: properties                                         *)
(***************************************************************************)

dry == <<"d","r","y">>

damp == <<"d","a","m","p">>

wet == <<"w","e","t">>

dry_cool == <<"d","r","y","_","c","o","o","l">>

\* The four mappings, the result being undefined or a wire value, and the
\* conditions parameter of the page's link being absent or a wire value.
NormalizedWell ==
  /\ fnArg.cond \in {dry_warm, dry_cool} => fnResult.normalized = Str(dry)
  /\ fnArg.cond = damp => fnResult.normalized = Str(damp)
  /\ fnArg.cond = wet => fnResult.normalized = Str(wet)
  /\ \/ fnResult.normalized = Undefined
     \/ fnResult.normalized.def /\ isValidConditions(fnResult.normalized.s)
  /\ fnResult.link.null <=> fnArg.track = <<>>
  /\ ~fnResult.link.null =>
       \A i \in 1..Len(QueryPairs(fnResult.link.s)) :
         QueryPairs(fnResult.link.s)[i][1] = <<"c","o","n","d","i","t","i","o","n","s">>
           => QueryPairs(fnResult.link.s)[i][2] \in {dry, damp, wet}

\* C12 as stated: normalizeConditions maps dry_warm and dry_cool to dry, damp
\* to damp, wet to wet and anything else to undefined; its result is undefined
\* or a wire value, and the conditions parameter of a link of the timing page
\* is absent or one of dry, damp, wet.
C12_NormalizeAsStated ==
  (fnDone /\ ev = "normalizeConditions") =>
    /\ NormalizedWell
    /\ fnArg.cond \notin {dry_warm, dry_cool, damp, wet}
         => fnResult.normalized = Undefined

\* C12: as above, but the wire value dry is mapped to dry as well; undefined
\* is returned for everything but dry_warm, dry_cool, dry, damp and wet.
C12_Normalize ==
  (fnDone /\ ev = "normalizeConditions") =>
    /\ NormalizedWell
    /\ fnArg.cond = dry => fnResult.normalized = Str(dry)
    /\ fnArg.cond \notin {dry_warm, dry_cool, dry, damp, wet}
         => fnResult.normalized = Undefined

C12_Witness ==
  /\ fnDone
  /\ ev = "normalizeConditions"
  /\ fnArg = Selection(t1, c1, dry_cool)
  /\ fnResult.normalized = Str(dry)
  /\ DecodedParam(fnResult.link.s, <<"c","o","n","d","i","t","i","o","n","s">>) = dry

(***************************************************************************)
(* JavaScript values of a JSON payload                                     *)
(***************************************************************************)

\* A value: its type t; a string's text s; a number's floor n and quarters q
\* (the number is n + q/4), with s = "NaN" for NaN and s = "huge" for a finite
\* number beyond the range of a Date (8.64e15 ms).
JV(t, str, n, q) == [t |-> t, s |-> str, n |-> n, q |-> q]

JUndef == JV("undefined", "", 0, 0)

JNull == JV("null", "", 0, 0)

JStr(str) == JV("string", str, 0, 0)

JNum(n) == JV("number", "", n, 0)

JFrac(n, q) == JV("number", "", n, q)

JNaN == JV("number", "NaN", 0, 0)

JHuge == JV("number", "huge", 0, 0)

\* JavaScript truthiness.
JTruthy(v) ==
  CASE v.t = "undefined" -> FALSE
    [] v.t = "null"      -> FALSE
    [] v.t = "string"    -> v.s # ""
    [] v.t = "number"    -> v.s = "huge" \/ (v.s = "" /\ (v.n # 0 \/ v.q # 0))
    [] v.t = "boolean"   -> v.n = 1
    [] OTHER             -> TRUE

\* ToNumber, the coercion Math.round and new Date apply. The strings of the
\* model are not numerals.
ToNumber(v) ==
  CASE v.t = "number"  -> v
    [] v.t = "null"    -> JNum(0)
    [] v.t = "boolean" -> JNum(v.n)
    [] v.t = "string"  -> IF v.s = "" THEN JNum(0) ELSE JNaN
    [] OTHER           -> JNaN

\* Math.round: to the nearest integer, a half going up.
MathRound(v) ==
  LET x == ToNumber(v)
  IN  IF x.s # "" THEN x ELSE JNum(x.n + (IF x.q >= 2 THEN 1 ELSE 0))

\* new Date(v) is a valid date. (new Date(undefined) is not; new Date(null)
\* is the epoch; the strings of the model are not date strings.)
DateValid(v) ==
  CASE v.t = "number"  -> v.s = ""
    [] v.t = "null"    -> TRUE
    [] v.t = "boolean" -> TRUE
    [] OTHER           -> FALSE

\* new Date(v).toISOString() of a valid date: the text of its time value,
\* which is v truncated to whole milliseconds.
ToISOString(v) ==
  LET x == ToNumber(v)
  IN  JV("string", "iso", IF x.n < 0 /\ x.q > 0 THEN x.n + 1 ELSE x.n, 0)

\* What JSON.stringify makes of a number: NaN becomes null.
JsonNumber(v) == IF v.s = "NaN" THEN JNull ELSE v

(***************************************************************************)
(* Header text                                                             *)
(***************************************************************************)

UpperSeq == <<"A","B","C","D","E","F","G","H","I","J","K","L","M",
              "N","O","P","Q","R","S","T","U","V","W","X","Y","Z">>

LowerSeq == <<"a","b","c","d","e","f","g","h","i","j","k","l","m",
              "n","o","p","q","r","s","t","u","v","w","x","y","z">>

ToLowerChar(c) ==
  IF c \in Upper THEN LowerSeq[CHOOSE i \in 1..26 : UpperSeq[i] = c] ELSE c

toLowerCase(str) == [i \in 1..Len(str) |-> ToLowerChar(str[i])]

\* str.slice(k): str without its first k characters.
Slice(str, k) == SubSeq(str, k + 1, Len(str))

RECURSIVE TrimStart(_)
TrimStart(str) ==
  IF str # <<>> /\ Head(str) = " " THEN TrimStart(Tail(str)) ELSE str

RECURSIVE TrimEnd(_)
TrimEnd(str) ==
  IF str # <<>> /\ str[Len(str)] = " "
  THEN TrimEnd(SubSeq(str, 1, Len(str) - 1)) ELSE str

Trim(str) == TrimEnd(TrimStart(str))

(***************************************************************************)
(* The timing page: properties                                             *)
(***************************************************************************)

Selections ==
  {Selection(t, c, k) : t \in TrackOptions, c \in CarOptions, k \in ConditionOptions}

\* C7: every dispatch navigates to a built link and arms a 1200 ms timer, which
\* the ref then holds; when a fallback timer fires on the mounted page the
\* fallback modal is shown if and only if the page is visible at that instant,
\* and the modal appears in no other way; a dispatch on a page that stays
\* visible and mounted, with no further dispatch, is followed by the modal.
C7_Handoff ==
  /\ [][dispatches' # dispatches =>
          /\ dispatches' = dispatches + 1
          /\ \E sel \in Selections :
               sel.track # <<>> /\ locationHref' = getDeepLink(sel)
          /\ ~locationHref'.null
          /\ [id |-> dispatches', kind |-> "fallback", delay |-> 1200,
              sel |-> NoSelection] \in timers'
          /\ fallbackTimeoutRef' = dispatches']_vars
  /\ [][(ev' = "FallbackTimerFires" /\ mounted) =>
          (showFallbackModal' <=> ~docHidden)]_vars
  /\ [][(~showFallbackModal /\ showFallbackModal') =>
          (ev' = "FallbackTimerFires" /\ ~docHidden)]_vars
  /\ \A n \in 1..MaxDispatches :
       (dispatches = n /\ FallbackTimer(n) \in timers)
         ~> (showFallbackModal \/ docHidden \/ ~mounted \/ dispatches # n)

\* The fallback timer of a dispatch has fired on the visible page.
C7_Witness ==
  /\ ev = "FallbackTimerFires"
  /\ mounted /\ ~docHidden
  /\ dispatches >= 1
  /\ showFallbackModal

\* C8 as stated: once the user has confirmed the confirmation modal, every
\* later 'Open Timing App' request with a track selected dispatches directly
\* and does not show the confirmation modal.
C8_ConfirmedOnceAsStated ==
  [][(everConfirmed /\ ev' = "handleOpenTimingAppClick" /\ selectedTrackId # <<>>) =>
       (~showConfirmModal' /\ dispatches' = dispatches + 1)]_vars

\* C8, amended: once hasConfirmed holds (the modal was confirmed with 'Don't
\* show this again' checked and the preference was stored, or the stored
\* preference was read at the mount) it keeps holding, and every later request
\* with a track selected dispatches directly without the confirmation modal; a
\* request with no track selected changes nothing.
C8_ConfirmOnce ==
  /\ [][(hasConfirmed /\ ev' = "handleOpenTimingAppClick" /\ selectedTrackId # <<>>) =>
          (~showConfirmModal' /\ dispatches' = dispatches + 1)]_vars
  /\ [][hasConfirmed => hasConfirmed']_vars
  /\ [][(ev' = "handleConfirmModalConfirm" /\ dontShowAgain /\ storageAvailable) =>
          hasConfirmed']_vars
  /\ [][(ev' = "handleOpenTimingAppClick" /\ selectedTrackId = <<>>) =>
          UNCHANGED timingVars]_vars

\* A user who confirmed the modal and stored the preference has asked again and
\* the link was dispatched for the second time.
C8_Witness ==
  /\ ev = "handleOpenTimingAppClick"
  /\ everConfirmed /\ hasConfirmed /\ storedConfirmed
  /\ ~showConfirmModal
  /\ dispatches = 2

\* C9: once the page has been left no fallback timer is pending and no deep
\* link is dispatched.
C9_QuietAfterExit ==
  [][~mounted' =>
       /\ \A t \in timers' : t.kind # "fallback"
       /\ ~mounted => dispatches' = dispatches]_vars

AutoOpenPending == {t \in timers : t.kind = "autoOpen"}

\* The operations by which the user asks for the timing app.
UserIntents ==
  {"handleOpenTimingAppClick", "handleConfirmModalConfirm",
   "handleFallbackTryAgain"}

\* C26: the timing page dispatches the deep link once per user intent: a step
\* dispatches at most once, and only for a request of the user or for the
\* auto-open; the auto-open is scheduled at most once per mount; and no
\* auto-open comes in addition to the dispatch of a confirmation made with
\* 'Don't show this again' checked.
C26_OneDispatchPerIntent ==
  /\ [][dispatches' # dispatches =>
          /\ dispatches' = dispatches + 1
          /\ ev' \in UserIntents \cup {"AutoOpenTimerFires"}]_vars
  /\ [](Cardinality(AutoOpenPending) <= 1)
  /\ [][(AutoOpenPending' \ AutoOpenPending # {}) =>
          (~hasAutoOpenedRef /\ hasAutoOpenedRef')]_vars
  /\ [][hasAutoOpenedRef => hasAutoOpenedRef']_vars
  /\ [][(ev' = "handleConfirmModalConfirm" /\ dispatches' = dispatches + 1) =>
          AutoOpenPending' = {}]_vars
  /\ [][(ev' = "AutoOpenTimerFires" /\ dispatches' = dispatches + 1) =>
          ~everConfirmed]_vars

\* C27: the confirmation modal and the fallback modal are never shown at
\* the same time, also when the confirmation modal is opened again while a
\* fallback timer is pending.
C27_OneModal == ~(showConfirmModal /\ showFallbackModal)

\* C28: the URL of every dispatch, that of the auto-open 100 ms after its
\* effect included, is the link of the track, car and conditions selected at
\* the moment of the dispatch, and it carries a non-empty trackId.
C28_DispatchIsCurrent ==
  [][dispatches' # dispatches =>
       /\ selectedTrackId # <<>>
       /\ ~locationHref'.null
       /\ locationHref' = getDeepLink(CurrentSelection)]_vars

FallbackPending == {t \in timers : t.kind = "fallback"}

\* The fallback modal is on the screen.
FallbackShown == mounted /\ showFallbackModal

\* handleCopyLink: what the 'Copy link' button writes to the clipboard,
\* lastDeepLink || deepLink; <<>> if it copies nothing.
CopyLinkText ==
  IF lastDeepLink # <<>> THEN lastDeepLink
  ELSE IF getDeepLink(CurrentSelection).null THEN <<>>
  ELSE getDeepLink(CurrentSelection).s

\* C29: at most one fallback timer is pending at any time; the fallback modal
\* comes up only when the timer of the most recent dispatch, set to 1200 ms at
\* that dispatch, has run out, so never earlier than 1200 ms after the most
\* recent dispatch; and while the fallback modal is shown lastDeepLink is
\* non-empty and is the URL of the most recent dispatch, which is what
\* 'Copy link' copies.
C29_FallbackTimer ==
  /\ [](Cardinality(FallbackPending) <= 1)
  /\ [][(~showFallbackModal /\ showFallbackModal') =>
          /\ ev' = "FallbackTimerFires"
          /\ dispatches >= 1
          /\ FallbackTimer(dispatches) \in timers \ timers'
          /\ FallbackTimer(dispatches).delay = 1200]_vars
  /\ [](FallbackShown =>
          /\ FallbackPending = {}
          /\ lastDeepLink # <<>>
          /\ ~locationHref.null
          /\ lastDeepLink = locationHref.s
          /\ CopyLinkText = locationHref.s)

\* The link was dispatched twice, the first dispatch's timer was cleared by
\* the second, the second one's timer has run out on the visible page and the
\* modal shows the link of the second dispatch.
C29_Witness ==
  /\ ev = "FallbackTimerFires"
  /\ FallbackShown
  /\ dispatches = 2
  /\ timers = {}
  /\ lastDeepLink = locationHref.s
  /\ selectedCarId = c1

(***************************************************************************)
(* The phone-session endpoint (POST /api/phone-sessions)                   *)
(***************************************************************************)

\* How many phone-session rows a behaviour of the model may hold.
MaxSessions == 1

\* Reference data: the rows of tables tracks and cars, and the users the auth
\* service knows by their access tokens.
TracksTable == {"t1"}

CarsTable == {[id |-> "c1", user_id |-> "u1"], [id |-> "c2", user_id |-> "u2"]}

TokenUser(token) ==
  CASE token = <<"A">> -> "u1"
    [] token = <<"B">> -> "u2"
    [] OTHER           -> "none"

Bearer(token) == <<"B","e","a","r","e","r"," ">> \o token

NoHeader == [null |-> TRUE, s |-> <<>>]

AuthHeaders ==
  {NoHeader,
   Some(<<"B","a","s","i","c"," ","A">>),
   Some(Bearer(<<" ">>)),
   Some(Bearer(<<"A">>)),
   Some(<<"b","e","a","r","e","r"," ","B">>),
   Some(Bearer(<<"X">>))}

\* One lap of the payload: an object, or null.
LapObject(startTime, endTime, durationMs) ==
  [t |-> "object", startTime |-> startTime, endTime |-> endTime,
   durationMs |-> durationMs]

NullLap == [t |-> "null", startTime |-> JUndef, endTime |-> JUndef,
            durationMs |-> JUndef]

\* The laps field: an array of laps, or something that is no array.
LapsArray(items) == [t |-> "array", items |-> items]

NoLapsArray == [t |-> "undefined", items |-> <<>>]

GoodLap == LapObject(JNum(1000), JNum(31000), JFrac(30000, 2))

LapsFields ==
  {LapsArray(<<GoodLap>>),
   NoLapsArray,
   LapsArray(<<>>),
   LapsArray(<<LapObject(JNum(1000), JNum(1005), JNum(5)),
               LapObject(JNum(2000), JNum(3000), JFrac(-2, 3))>>),
   LapsArray(<<LapObject(JNum(1000), JNum(2000), JNull), GoodLap>>),
   LapsArray(<<LapObject(JNum(1000), JNum(2000), JUndef)>>),
   LapsArray(<<GoodLap, NullLap>>),
   LapsArray(<<LapObject(JNum(1000), JUndef, JNum(45000))>>)}

PayloadObject(trackId, carId, source, tier, startedAt, endedAt, lapList) ==
  [trackId |-> trackId, carId |-> carId, source |-> source,
   accuracyTier |-> tier, device |-> JStr("phone"), samplingHz |-> JNum(10),
   sessionStartedAt |-> startedAt, sessionEndedAt |-> endedAt,
   laps |-> lapList]

GoodPayload ==
  PayloadObject(JStr("t1"), JNull, JStr("phone_gps"), JStr("phone"),
                JNum(1000), JNum(90000), LapsArray(<<GoodLap>>))

TrackIdValues == {JStr("t1"), JUndef, JStr(""), JNum(7), JStr("tX")}

CarIdValues == {JNull, JUndef, JNum(7), JStr(""), JStr("c1"), JStr("c2"), JStr("cX")}

SourceValues == {JStr("phone_gps"), JStr("manual")}

TierValues == {JStr("phone"), JUndef}

StartedAtValues == {JNum(1000), JStr("noon"), JHuge}

EndedAtValues == {JNum(90000), JUndef}

\* How many fields of the payload p differ from GoodPayload; the payloads of
\* the model differ from it in two fields at most.
Deviations(p) ==
  Cardinality({f \in DOMAIN p : p[f] # GoodPayload[f]})

PayloadObjects ==
  {p \in [trackId : TrackIdValues, carId : CarIdValues, source : SourceValues,
          accuracyTier : TierValues, device : {JStr("phone")},
          samplingHz : {JNum(10)}, sessionStartedAt : StartedAtValues,
          sessionEndedAt : EndedAtValues, laps : LapsFields] :
     Deviations(p) <= 2}

\* The body: what request.json() gives. It throws on a body that is no JSON
\* text, and gives null, a number or an object otherwise.
Body(kind, obj) == [kind |-> kind, obj |-> obj]

Bodies ==
  {Body("throws", GoodPayload), Body("null", GoodPayload),
   Body("number", GoodPayload)}
  \cup {Body("object", p) : p \in PayloadObjects}

\* A call of the store or of the auth service that fails (returns an error).
Faults == {"none", "auth", "track", "car", "session", "laps"}

GoodRequest ==
  [authHeader |-> Some(Bearer(<<"A">>)), body |-> Body("object", GoodPayload),
   fault |-> "none", adminConfigured |-> TRUE]

\* In how many respects the request r differs from GoodRequest; the requests
\* of the model differ from it in two respects at most.
RequestDeviations(r) ==
  (IF r.authHeader # GoodRequest.authHeader THEN 1 ELSE 0)
  + (IF r.fault # "none" THEN 1 ELSE 0)
  + (IF r.adminConfigured THEN 0 ELSE 1)
  + (IF r.body.kind # "object" THEN 1 ELSE Deviations(r.body.obj))

Requests ==
  {r \in [authHeader : AuthHeaders, body : Bodies, fault : Faults,
          adminConfigured : BOOLEAN] : RequestDeviations(r) <= 2}

NoRequest ==
  [authHeader |-> NoHeader, body |-> Body("throws", GoodPayload),
   fault |-> "none", adminConfigured |-> TRUE]

\* What the handler leaves: its response, what it called, and the tables.
Outcome(status, calls, sessions, lapRows, inserted, phoneSessionId) ==
  [status |-> status, trace |-> calls, phone_sessions |-> sessions,
   lapsTable |-> lapRows, lapsInserted |-> inserted,
   phoneSessionId |-> phoneSessionId]

NoResponse == [status |-> 0, lapsInserted |-> 0, phoneSessionId |-> 0]

SessionRow(id, userId, p, finalCarId) ==
  [id |-> id, user_id |-> userId, driver_id |-> userId,
   track_id |-> p.trackId.s, car_id |-> finalCarId, source |-> p.source.s,
   accuracy_tier |-> p.accuracyTier.s, device |-> p.device,
   sampling_hz |-> p.samplingHz,
   started_at |-> ToISOString(p.sessionStartedAt),
   ended_at |-> ToISOString(p.sessionEndedAt)]

\* A slip: the duration is stored as sent, not rounded.
PhoneLapRow_unrounded(id, userId, p, finalCarId, lap) ==
  [id |-> id, user_id |-> userId, track_id |-> p.trackId.s,
   car_id |-> finalCarId, lap_time_ms |-> JsonNumber(ToNumber(lap.durationMs)),
   date |-> ToISOString(lap.endTime), is_public |-> TRUE,
   session_label |-> JNull, conditions |-> JNull, temperature_band |-> JNull,
   source |-> "phone_gps"]

\* One element of lapsToInsert, as the store keeps it.
PhoneLapRow(id, userId, p, finalCarId, lap) ==
  [id |-> id, user_id |-> userId, track_id |-> p.trackId.s,
   car_id |-> finalCarId, lap_time_ms |-> JsonNumber(MathRound(lap.durationMs)),
   date |-> ToISOString(lap.endTime), is_public |-> TRUE,
   session_label |-> JNull, conditions |-> JNull, temperature_band |-> JNull,
   source |-> "phone_gps"]

\* The debug log of step 5 converts every timestamp with toISOString, which
\* throws on an invalid date, and reads lap.durationMs, which throws on a lap
\* that is null.
LogThrows(p) ==
  \/ ~DateValid(p.sessionStartedAt)
  \/ ~DateValid(p.sessionEndedAt)
  \/ \E i \in 1..Len(p.laps.items) :
       \/ p.laps.items[i].t = "null"
       \/ ~DateValid(p.laps.items[i].startTime)
       \/ ~DateValid(p.laps.items[i].endTime)

\* Step 1 (lines 28-58): the header, the token, the admin client and the
\* token's verification. status 0: the caller is userId.
AuthResult(status, userId, calls) ==
  [status |-> status, userId |-> userId, trace |-> calls]

\* A slip: the error of auth.getUser is ignored.
Authenticate_ignoresError(req) ==
  LET h == req.authHeader
  IN  IF h.null \/ h.s = <<>>
         \/ ~StartsWith(toLowerCase(h.s), <<"b","e","a","r","e","r"," ">>)
      THEN AuthResult(401, "none", <<>>)
      ELSE LET accessToken == Trim(Slice(h.s, Len(Bearer(<<>>))))
           IN  IF accessToken = <<>>
               THEN AuthResult(401, "none", <<>>)
               ELSE IF ~req.adminConfigured
               THEN AuthResult(500, "none", <<"getSupabaseAdmin">>)
               ELSE LET user == IF req.fault = "auth"
                                THEN "u1" ELSE TokenUser(accessToken)
                    IN  AuthResult(IF user = "none" THEN 401 ELSE 0, user,
                                   <<"getSupabaseAdmin", "auth.getUser">>)

Authenticate(req) ==
  LET h == req.authHeader
  IN  IF h.null \/ h.s = <<>>
         \/ ~StartsWith(toLowerCase(h.s), <<"b","e","a","r","e","r"," ">>)
      THEN AuthResult(401, "none", <<>>)
      ELSE LET accessToken == Trim(Slice(h.s, Len(Bearer(<<>>))))
           IN  IF accessToken = <<>>
               THEN AuthResult(401, "none", <<>>)
               ELSE IF ~req.adminConfigured
               THEN AuthResult(500, "none", <<"getSupabaseAdmin">>)
               ELSE LET user == IF req.fault = "auth"
                                THEN "none" ELSE TokenUser(accessToken)
                    IN  AuthResult(IF user = "none" THEN 401 ELSE 0, user,
                                   <<"getSupabaseAdmin", "auth.getUser">>)

\* A slip: the session timestamps are not examined.
ValidatePayload_noTimestamps(body) ==
  IF body.kind # "object" THEN 400
  ELSE LET p == body.obj
       IN  IF ~JTruthy(p.trackId) \/ p.trackId.t # "string" THEN 400
           ELSE IF p.carId.t # "null" /\ p.carId.t # "string" THEN 400
           ELSE IF p.source # JStr("phone_gps") THEN 400
           ELSE IF p.accuracyTier # JStr("phone") THEN 400
           ELSE IF p.laps.t # "array" \/ Len(p.laps.items) = 0 THEN 400
           ELSE 0

\* Step 2 after request.json() (lines 67-123): 400, or 0 for a payload that
\* passes. body.kind is "null", "number" or "object" here.
ValidatePayload(body) ==
  IF body.kind # "object" THEN 400
  ELSE LET p == body.obj
       IN  IF ~JTruthy(p.trackId) \/ p.trackId.t # "string" THEN 400
           ELSE IF p.carId.t # "null" /\ p.carId.t # "string" THEN 400
           ELSE IF p.source # JStr("phone_gps") THEN 400
           ELSE IF p.accuracyTier # JStr("phone") THEN 400
           ELSE IF p.laps.t # "array" \/ Len(p.laps.items) = 0 THEN 400
           ELSE IF p.sessionStartedAt.t # "number"
                   \/ p.sessionEndedAt.t # "number" THEN 400
           ELSE 0

\* Step 3 (lines 128-140): the track is looked up.
ValidateTrack(p, fault) ==
  IF fault = "track" \/ p.trackId.s \notin TracksTable THEN 400 ELSE 0

CarResult(status, finalCarId, calls) ==
  [status |-> status, finalCarId |-> finalCarId, trace |-> calls]

\* A slip: the car's owner is not compared with the caller.
ValidateCar_anyOwner(p, userId, fault) ==
  IF ~JTruthy(p.carId) THEN CarResult(0, JNull, <<>>)
  ELSE LET found == {c \in CarsTable : c.id = p.carId.s}
       IN  IF fault = "car" \/ found = {}
           THEN CarResult(400, JNull, <<"select cars">>)
           ELSE CarResult(0, JStr((CHOOSE c \in found : TRUE).id),
                          <<"select cars">>)

\* Step 4 (lines 145-170): the car, if one is given, is looked up and must be
\* the caller's.
ValidateCar(p, userId, fault) ==
  IF ~JTruthy(p.carId) THEN CarResult(0, JNull, <<>>)
  ELSE LET found == {c \in CarsTable : c.id = p.carId.s}
       IN  IF fault = "car" \/ found = {}
           THEN CarResult(400, JNull, <<"select cars">>)
           ELSE LET carData == CHOOSE c \in found : TRUE
                IN  IF carData.user_id # userId
                    THEN CarResult(403, JNull, <<"select cars">>)
                    ELSE CarResult(0, JStr(carData.id), <<"select cars">>)

\* Steps 6 to 8 (lines 206-280): the session row, then the lap rows, then 200.
PersistSession(p, userId, finalCarId, fault, calls, sessions, lapRows) ==
  IF fault = "session"
  THEN Outcome(500, calls \o <<"insert phone_sessions">>, sessions, lapRows, 0, 0)
  ELSE LET phoneSessionId == Len(sessions) + 1
           stored == Append(sessions,
                            SessionRow(phoneSessionId, userId, p, finalCarId))
           lapsToInsert ==
             [i \in 1..Len(p.laps.items) |->
                PhoneLapRow(Len(lapRows) + i, userId, p, finalCarId,
                            p.laps.items[i])]
           called == calls \o <<"insert phone_sessions", "insert laps">>
       IN  IF fault = "laps"
           THEN Outcome(500, called, stored, lapRows, 0, 0)
           ELSE Outcome(200, called, stored, lapRows \o lapsToInsert,
                        Len(lapsToInsert), phoneSessionId)

\* The handler (lines 23-288), for a request req and the tables as they are.
POST(req, sessions, lapRows) ==
  LET auth == Authenticate(req)
      Fail(status, calls) == Outcome(status, calls, sessions, lapRows, 0, 0)
  IN  IF auth.status # 0 THEN Fail(auth.status, auth.trace)
      ELSE LET parsed == auth.trace \o <<"request.json">>
           IN  IF req.body.kind = "throws" THEN Fail(500, parsed)
               ELSE IF ValidatePayload(req.body) # 0 THEN Fail(400, parsed)
               ELSE LET p == req.body.obj
                        tracked == parsed \o <<"select tracks">>
                    IN  IF ValidateTrack(p, req.fault) # 0 THEN Fail(400, tracked)
                        ELSE LET car == ValidateCar(p, auth.userId, req.fault)
                                 calls == tracked \o car.trace
                             IN  IF car.status # 0 THEN Fail(car.status, calls)
                                 ELSE IF LogThrows(p) THEN Fail(500, calls)
                                 ELSE PersistSession(p, auth.userId, car.finalCarId,
                                                     req.fault, calls, sessions,
                                                     lapRows)

\* One request is served.
HandleRequest(req) ==
  /\ response = NoResponse
  /\ Len(phone_sessions) < MaxSessions
  /\ LET out == POST(req, phone_sessions, lapsTable)
     IN  /\ request' = req
         /\ response' = [status |-> out.status, lapsInserted |-> out.lapsInserted,
                         phoneSessionId |-> out.phoneSessionId]
         /\ trace' = out.trace
         /\ phone_sessions' = out.phone_sessions
         /\ lapsTable' = out.lapsTable
  /\ ev' = "POST"
  /\ UNCHANGED outsideIngest

StoreInit ==
  /\ phone_sessions = <<>>
  /\ lapsTable = <<>>

IngestIdle ==
  /\ request = NoRequest
  /\ response = NoResponse
  /\ trace = <<>>

\* The response is sent and the handler's scope is gone; the endpoint takes
\* the next request.
Respond ==
  /\ response # NoResponse
  /\ request' = NoRequest
  /\ response' = NoResponse
  /\ trace' = <<>>
  /\ ev' = "Respond"
  /\ UNCHANGED <<storeVars, outsideIngest>>

IngestNext ==
  \/ \E req \in Requests : HandleRequest(req)
  \/ Respond

(***************************************************************************)
(* The phone-session endpoint: properties                                  *)
(***************************************************************************)

BearerPrefix == <<"b","e","a","r","e","r"," ">>

UpperOf(c) ==
  IF c \in Lower THEN UpperSeq[CHOOSE k \in 1..26 : LowerSeq[k] = c] ELSE c

\* The header is missing, does not start with "bearer " in any casing, or
\* carries nothing but blanks after it.
HeaderRejected(h) ==
  \/ h.null
  \/ Len(h.s) < Len(BearerPrefix)
  \/ \E i \in 1..Len(BearerPrefix) :
       h.s[i] \notin {BearerPrefix[i], UpperOf(BearerPrefix[i])}
  \/ \A i \in (Len(BearerPrefix) + 1)..Len(h.s) : h.s[i] = " "

\* The driver the auth service names for the request's token, "none" if it
\* names nobody or fails.
CallerOf(req) ==
  IF HeaderRejected(req.authHeader) \/ ~req.adminConfigured \/ req.fault = "auth"
  THEN "none"
  ELSE LET token == SubSeq(req.authHeader.s, Len(BearerPrefix) + 1,
                           Len(req.authHeader.s))
       IN  IF token = <<"A">> THEN "u1"
           ELSE IF token = <<"B">> THEN "u2" ELSE "none"

\* The token reaches the auth service and is not verified.
VerificationFails(req) ==
  /\ ~HeaderRejected(req.authHeader)
  /\ req.adminConfigured
  /\ CallerOf(req) = "none"

TableCalls == {"select tracks", "select cars", "insert phone_sessions", "insert laps"}

Called(calls) == {calls[i] : i \in 1..Len(calls)}

\* The required fields of a payload are all well formed.
FieldsValid(p) ==
  /\ p.trackId.t = "string" /\ p.trackId.s # ""
  /\ p.carId.t \in {"null", "string"}
  /\ p.source = JStr("phone_gps")
  /\ p.accuracyTier = JStr("phone")
  /\ p.laps.t = "array" /\ p.laps.items # <<>>
  /\ p.sessionStartedAt.t = "number"
  /\ p.sessionEndedAt.t = "number"

UnknownTrack(p) == p.trackId.t = "string" /\ p.trackId.s \notin TracksTable

UnknownCar(p) ==
  /\ p.carId.t = "string" /\ p.carId.s # ""
  /\ \A c \in CarsTable : c.id # p.carId.s

OthersCar(p, userId) ==
  /\ p.carId.t = "string"
  /\ \E c \in CarsTable : c.id = p.carId.s /\ c.user_id # userId

\* C2: a request of a verified driver whose carId names another driver's car
\* writes no phone-session and no lap; it is answered 403 when the rest of
\* the payload is well formed and its track is found, and 400 otherwise.
C2_OthersCarForbidden ==
  [][(/\ ev' = "POST"
      /\ CallerOf(request') # "none"
      /\ request'.body.kind = "object"
      /\ OthersCar(request'.body.obj, CallerOf(request')))
     => /\ UNCHANGED storeVars
        /\ response'.status \in {400, 403}
        /\ (/\ FieldsValid(request'.body.obj)
            /\ ~UnknownTrack(request'.body.obj)
            /\ request'.fault \notin {"track", "car"})
           => response'.status = 403]_vars

C2_Witness ==
  /\ ev = "POST"
  /\ CallerOf(request) = "u2"
  /\ request.body.obj.carId = JStr("c1")
  /\ response.status = 403
  /\ "select cars" \in Called(trace)

\* C3: a request whose Authorization header is missing, does not start with
\* "bearer ", carries an empty token, or whose token fails verification is
\* answered 401 whatever its body is, without the body being read and without
\* any table being read or written.
C3_Unauthorized ==
  [][(/\ ev' = "POST"
      /\ \/ HeaderRejected(request'.authHeader)
         \/ VerificationFails(request'))
     => /\ response'.status = 401
        /\ "request.json" \notin Called(trace')
        /\ Called(trace') \cap TableCalls = {}
        /\ UNCHANGED storeVars]_vars

C3_Witness ==
  /\ ev = "POST"
  /\ request.authHeader = Some(Bearer(<<"X">>))
  /\ request.body.kind = "throws"
  /\ response.status = 401

\* C4: for a request of a verified driver whose body is JSON, a malformed or
\* missing required field, an unknown trackId or an unknown carId is answered
\* 400, and nothing is written to phone_sessions or laps.
C4_BadRequest ==
  [][(/\ ev' = "POST"
      /\ CallerOf(request') # "none"
      /\ request'.body.kind = "object"
      /\ \/ ~FieldsValid(request'.body.obj)
         \/ UnknownTrack(request'.body.obj)
         \/ UnknownCar(request'.body.obj))
     => /\ response'.status = 400
        /\ UNCHANGED storeVars
        /\ Called(trace') \cap {"insert phone_sessions", "insert laps"} = {}]_vars

C4_Witness ==
  /\ ev = "POST"
  /\ CallerOf(request) = "u1"
  /\ FieldsValid(request.body.obj)
  /\ request.body.obj.carId = JStr("cX")
  /\ request.body.obj.sessionStartedAt = JHuge
  /\ response.status = 400

\* r is what Math.round makes of the duration d, as JSON carries it: the
\* nearest integer of a number (a half going up), 0 of null, and null of
\* anything that is no number.
IsRoundOf(r, d) ==
  IF d.t = "number" /\ d.s = ""
  THEN /\ r.t = "number" /\ r.s = "" /\ r.q = 0
       /\ 4 * r.n - 2 <= 4 * d.n + d.q
       /\ 4 * d.n + d.q < 4 * r.n + 2
  ELSE IF d.t = "null" THEN r = JNum(0)
  ELSE r = JNull

\* C5: a 200 response means that one phone-session row was inserted, and
\* after it one lap row per lap of the payload, in the payload's order, each
\* with the verified driver as user_id, the payload's trackId, a car_id that
\* is null or a car of that driver, lap_time_ms = round(durationMs), source
\* phone_gps, is_public true and null session label, conditions and
\* temperature band; lapsInserted is the number of laps of the payload.
C5_Persisted ==
  [][(ev' = "POST" /\ response'.status = 200)
     => LET p == request'.body.obj
            items == p.laps.items
            u == CallerOf(request')
            n == Len(lapsTable)
            k == Len(phone_sessions)
        IN  /\ u # "none"
            /\ Len(phone_sessions') = k + 1
            /\ SubSeq(phone_sessions', 1, k) = phone_sessions
            /\ phone_sessions'[k + 1].user_id = u
            /\ phone_sessions'[k + 1].track_id = p.trackId.s
            /\ response'.phoneSessionId = phone_sessions'[k + 1].id
            /\ \E i, j \in 1..Len(trace') :
                 /\ i < j
                 /\ trace'[i] = "insert phone_sessions"
                 /\ trace'[j] = "insert laps"
                 /\ \A m \in 1..Len(trace') \ {i, j} :
                      trace'[m] \notin {"insert phone_sessions", "insert laps"}
            /\ Len(lapsTable') = n + Len(items)
            /\ SubSeq(lapsTable', 1, n) = lapsTable
            /\ \A i \in 1..Len(items) :
                 LET row == lapsTable'[n + i]
                 IN  /\ row.user_id = u
                     /\ row.track_id = p.trackId.s
                     /\ \/ row.car_id = JNull
                        \/ \E c \in CarsTable :
                             row.car_id = JStr(c.id) /\ c.user_id = u
                     /\ IsRoundOf(row.lap_time_ms, items[i].durationMs)
                     /\ row.source = "phone_gps"
                     /\ row.is_public
                     /\ row.session_label = JNull
                     /\ row.conditions = JNull
                     /\ row.temperature_band = JNull
            /\ response'.lapsInserted = Len(items)]_vars

C5_Witness ==
  /\ ev = "POST"
  /\ response.status = 200
  /\ response.lapsInserted = 2
  /\ Len(lapsTable) = 2
  /\ Len(phone_sessions) = 1
  /\ lapsTable[2].lap_time_ms = JNum(30001)

\* C6: every lap row has a lap_time_ms that manual entry would accept: a
\* non-negative integer within [20000, 900000].
C6_IngestKeepsLapTimeInvariants ==
  \A i \in 1..Len(lapsTable) :
    LET ms == lapsTable[i].lap_time_ms
    IN  /\ ms.t = "number" /\ ms.s = "" /\ ms.q = 0
        /\ ms.n >= 0
        /\ ms.n >= 20000 /\ ms.n <= 900000

\* C23: the ingest is all-or-nothing in the store: when the endpoint answers
\* with a status other than 200 (400, 401, 403 or 500), no phone-session row
\* and no lap row of the request remains persisted; in particular a failure
\* of the laps insert leaves no phone-session row without laps behind.
C23_AllOrNothing ==
  [][(ev' = "POST" /\ response'.status # 200)
     => UNCHANGED <<phone_sessions, lapsTable>>]_vars

(***************************************************************************)
(* The lap-time codec: formatLapTime and parseLapTime                      *)
(***************************************************************************)

DigitSeq == <<"0","1","2","3","4","5","6","7","8","9">>

\* Number.prototype.toString of an integer.
RECURSIVE NatToString(_)
NatToString(n) ==
  IF n < 10 THEN <<DigitSeq[n + 1]>>
  ELSE NatToString(n \div 10) \o <<DigitSeq[(n % 10) + 1]>>

IntToString(n) == IF n < 0 THEN <<"-">> \o NatToString(-n) ELSE NatToString(n)

\* str.padStart(width, '0')
RECURSIVE padStart(_, _)
padStart(str, width) ==
  IF Len(str) >= width THEN str ELSE padStart(<<"0">> \o str, width)

\* a % b of JavaScript: the remainder has the sign of a.
JsRem(a, b) == IF a >= 0 THEN a % b ELSE -((-a) % b)

\* A slip: the milliseconds are padded to two digits.
formatLapTime_shortPad(ms) ==
  LET totalSeconds == ms \div 1000
      minutes == totalSeconds \div 60
      seconds == JsRem(totalSeconds, 60)
      millis == JsRem(ms, 1000)
      secStr == padStart(IntToString(seconds), 2)
      msStr == padStart(IntToString(millis), 2)
  IN  IntToString(minutes) \o <<":">> \o secStr \o <<".">> \o msStr

\* formatLapTime(ms) for an integer ms.
formatLapTime(ms) ==
  LET totalSeconds == ms \div 1000
      minutes == totalSeconds \div 60
      seconds == JsRem(totalSeconds, 60)
      millis == JsRem(ms, 1000)
      secStr == padStart(IntToString(seconds), 2)
      msStr == padStart(IntToString(millis), 3)
  IN  IntToString(minutes) \o <<":">> \o secStr \o <<".">> \o msStr

\* parseInt(str, 10) of a string of digits.
RECURSIVE ParseInt(_)
ParseInt(str) ==
  IF str = <<>> THEN 0
  ELSE 10 * ParseInt(SubSeq(str, 1, Len(str) - 1))
       + (CHOOSE d \in 0..9 : DigitSeq[d + 1] = str[Len(str)])

\* The digits str starts with.
RECURSIVE DigitRun(_)
DigitRun(str) ==
  IF str # <<>> /\ Head(str) \in Digit
  THEN <<Head(str)>> \o DigitRun(Tail(str)) ELSE <<>>

\* while (millis.length < 3) millis += '0'
RECURSIVE PadMillis(_)
PadMillis(millis) ==
  IF Len(millis) < 3 THEN PadMillis(millis \o <<"0">>) ELSE millis

\* A number-or-null result.
NoNumber == [null |-> TRUE, n |-> 0]

SomeNumber(n) == [null |-> FALSE, n |-> n]

\* str matched against /^(\d{1,3})[.:](\d{1,3})$/: the two groups, or <<>>.
SecMatch(str) ==
  LET g1 == DigitRun(str)
      rest == SubSeq(str, Len(g1) + 2, Len(str))
  IN  IF /\ Len(g1) \in 1..3
         /\ Len(str) > Len(g1)
         /\ str[Len(g1) + 1] \in {".", ":"}
         /\ Len(rest) \in 1..3
         /\ DigitRun(rest) = rest
      THEN <<g1, rest>> ELSE <<>>

\* A slip: the minutes take two digits at most.
ColonMatch_twoDigits(str) ==
  LET g1 == DigitRun(str)
      tail == SubSeq(str, Len(g1) + 2, Len(str))
      g2 == DigitRun(tail)
      g3 == SubSeq(tail, Len(g2) + 2, Len(tail))
  IN  IF /\ Len(g1) \in 1..2
         /\ Len(str) > Len(g1)
         /\ str[Len(g1) + 1] = ":"
         /\ Len(g2) \in 1..2
         /\ Len(tail) > Len(g2)
         /\ tail[Len(g2) + 1] \in {".", ":"}
         /\ Len(g3) \in 1..3
         /\ DigitRun(g3) = g3
      THEN <<g1, g2, g3>> ELSE <<>>

\* str matched against /^(\d+):(\d{1,2})[.:](\d{1,3})$/: the three groups, or
\* <<>>.
ColonMatch(str) ==
  LET g1 == DigitRun(str)
      tail == SubSeq(str, Len(g1) + 2, Len(str))
      g2 == DigitRun(tail)
      g3 == SubSeq(tail, Len(g2) + 2, Len(tail))
  IN  IF /\ Len(g1) >= 1
         /\ Len(str) > Len(g1)
         /\ str[Len(g1) + 1] = ":"
         /\ Len(g2) \in 1..2
         /\ Len(tail) > Len(g2)
         /\ tail[Len(g2) + 1] \in {".", ":"}
         /\ Len(g3) \in 1..3
         /\ DigitRun(g3) = g3
      THEN <<g1, g2, g3>> ELSE <<>>

parseLapTime(input) ==
  LET trimmed == Trim(input)
      colonMatch == ColonMatch(trimmed)
      secMatch == SecMatch(trimmed)
  IN  IF trimmed = <<>> THEN NoNumber
      ELSE IF colonMatch # <<>>
      THEN SomeNumber(ParseInt(colonMatch[1]) * 60000 + ParseInt(colonMatch[2]) * 1000
                  + ParseInt(PadMillis(colonMatch[3])))
      ELSE IF secMatch # <<>>
      THEN SomeNumber(ParseInt(secMatch[1]) * 1000 + ParseInt(PadMillis(secMatch[2])))
      ELSE NoNumber

(***************************************************************************)
(* The lap-time codec, applied to arguments (specification SpecLapTime)    *)
(***************************************************************************)

\* Lap times of every length of the minutes, with seconds and milliseconds
\* that need padding or none; 999:59.999 is 59999999 ms.
MsSamples ==
  {m * 60000 + sec * 1000 + ms :
     m \in {0, 1, 9, 10, 62, 99, 100, 999}, sec \in {0, 3, 9, 10, 54, 59},
     ms \in {0, 1, 9, 10, 99, 100, 320, 999}}
  \cup {-1, 60000000}

LapTimeTexts ==
  {<<"1",":","5","4",".","3","2","0">>,
   <<"1",":","5","4",":","3","2","0">>,
   <<"1","1","4",".","3","2","0">>,
   <<" ","1",":","5","4",".","3"," ">>,
   <<>>,
   <<" "," "," ">>,
   <<"a","b","c">>,
   <<"1",":","5">>,
   <<"1","2","3","4",".","5">>,
   <<"1",":","5","4","3",".","2">>,
   <<"6","2",":","0","3",".","0","0","1">>,
   <<":","5","4",".","3","2","0">>,
   <<"1",":","5","4",".","3","2","0","0">>,
   <<"7",".","5">>,
   <<"1",".","5","4",".","3","2","0">>,
   <<"9","9","9",":","5","9",".","9","9","9">>}

MsArg(ms) == [kind |-> "ms", ms |-> ms, text |-> <<>>]

TextArg(text) == [kind |-> "text", ms |-> 0, text |-> text]

LapTimeInit ==
  /\ fnArg \in {MsArg(ms) : ms \in MsSamples} \cup {TextArg(t) : t \in LapTimeTexts}
  /\ fnDone = FALSE
  /\ fnResult = "none"

\* formatLapTime is applied to a lap time, and parseLapTime to its result.
CallFormatLapTime ==
  /\ ~fnDone
  /\ fnArg.kind = "ms"
  /\ fnDone' = TRUE
  /\ fnResult' = [text |-> formatLapTime(fnArg.ms),
                  parsed |-> parseLapTime(formatLapTime(fnArg.ms))]
  /\ ev' = "formatLapTime"
  /\ UNCHANGED fnArg
  /\ UNCHANGED outsideFn

\* parseLapTime is applied to a text.
CallParseLapTime ==
  /\ ~fnDone
  /\ fnArg.kind = "text"
  /\ fnDone' = TRUE
  /\ fnResult' = [text |-> fnArg.text, parsed |-> parseLapTime(fnArg.text)]
  /\ ev' = "parseLapTime"
  /\ UNCHANGED fnArg
  /\ UNCHANGED outsideFn

\* C13: for an integer ms in [0, 59999999], parseLapTime(formatLapTime(ms)) is
\* a number, and it is ms.
C13_RoundTrip ==
  (fnDone /\ ev = "formatLapTime" /\ fnArg.ms >= 0 /\ fnArg.ms <= 59999999) =>
    /\ ~fnResult.parsed.null
    /\ fnResult.parsed.n = fnArg.ms

C13_Witness ==
  /\ fnDone
  /\ ev = "formatLapTime"
  /\ fnArg.ms = 59999999
  /\ fnResult.parsed = SomeNumber(59999999)

\* C14: for a non-negative integer ms, formatLapTime(ms) is M:SS.mmm, M being
\* floor(ms/60000) without padding, SS floor(ms/1000) mod 60 in two digits and
\* mmm ms mod 1000 in three digits, so that M*60000 + SS*1000 + mmm = ms;
\* 114320 gives 1:54.320 and 3723001 gives 62:03.001.
C14_Format ==
  (fnDone /\ ev = "formatLapTime" /\ fnArg.ms >= 0) =>
    LET text == fnResult.text
        colon == SplitOn(text, ":")
        dot == SplitOn(colon[2], ".")
        M == colon[1]
        SS == dot[1]
        mmm == dot[2]
    IN  /\ Len(colon) = 2
        /\ Len(dot) = 2
        /\ \A i \in 1..Len(text) : text[i] \in Digit \cup {":", "."}
        /\ Len(M) >= 1
        /\ Len(M) > 1 => M[1] # "0"
        /\ Len(SS) = 2
        /\ Len(mmm) = 3
        /\ ParseInt(M) = fnArg.ms \div 60000
        /\ ParseInt(SS) = (fnArg.ms \div 1000) % 60
        /\ ParseInt(SS) \in 0..59
        /\ ParseInt(mmm) = fnArg.ms % 1000
        /\ ParseInt(M) * 60000 + ParseInt(SS) * 1000 + ParseInt(mmm) = fnArg.ms
        /\ fnArg.ms = 114320 => text = <<"1",":","5","4",".","3","2","0">>
        /\ fnArg.ms = 3723001 => text = <<"6","2",":","0","3",".","0","0","1">>

C14_Witness ==
  /\ fnDone
  /\ ev = "formatLapTime"
  /\ fnArg.ms = 3723001
  /\ fnResult.text = <<"6","2",":","0","3",".","0","0","1">>

(***************************************************************************)
(* The laps page: manual entry and the quick session                       *)
(***************************************************************************)

\* How many rows table laps, and how many laps the staged list, may hold in a
\* behaviour of the model, and how far qsNextId may count.
MaxLapRows == 2

MaxStaged == 2

MaxQsId == 3

\* The driver who uses the page, and the car and track of the selects.
PageUser == "u1"

PageCar == "c1"

PageTrack == "t1"

\* An empty number input.
Blank == JStr("")

Entry(minutes, seconds, millis) ==
  [minutes |-> minutes, seconds |-> seconds, millis |-> millis]

NoEntry == Entry(Blank, Blank, Blank)

\* What is typed into the three number inputs: 0:19.999, 0:20.000, 15:00.000,
\* 15:00.001, an empty field, half a millisecond, a negative number.
Entries ==
  {Entry(JNum(0), JNum(19), JNum(999)),
   Entry(JNum(0), JNum(20), JNum(0)),
   Entry(JNum(15), JNum(0), JNum(0)),
   Entry(JNum(15), JNum(0), JNum(1)),
   Entry(Blank, JNum(20), JNum(0)),
   Entry(JNum(0), JNum(20), JFrac(0, 2)),
   Entry(JNum(-1), JNum(59), JNum(999))}

\* A number in quarters.
Quarters(v) == 4 * v.n + v.q

FromQuarters(k) == JFrac(k \div 4, k % 4)

\* Number(minutes) * 60_000 + Number(seconds) * 1_000 + Number(millis)
TotalMs(e) ==
  FromQuarters(60000 * Quarters(ToNumber(e.minutes))
               + 1000 * Quarters(ToNumber(e.seconds))
               + Quarters(ToNumber(e.millis)))

\* The single-lap form is submitted only if the browser finds its inputs
\* valid: required, whole numbers, min 0, seconds at most 59, milliseconds at
\* most 999.
FormValid(e) ==
  /\ \A v \in {e.minutes, e.seconds, e.millis} :
       v.t = "number" /\ v.q = 0 /\ v.n >= 0
  /\ e.seconds.n <= 59
  /\ e.millis.n <= 999

\* A slip: the lower limit is compared with <= and the upper limit is gone.
LapTimeError_loose(e) ==
  IF Blank \in {e.minutes, e.seconds, e.millis} THEN "fill"
  ELSE IF Quarters(TotalMs(e)) <= 4 * 20000 THEN "low"
  ELSE ""

\* The checks of handleAddLap (lines 220-242) and of handleAddQsLap (lines
\* 312-330): the error they set, "" if the lap time passes.
LapTimeError(e) ==
  IF Blank \in {e.minutes, e.seconds, e.millis} THEN "fill"
  ELSE IF Quarters(TotalMs(e)) < 4 * 20000 THEN "low"
  ELSE IF Quarters(TotalMs(e)) > 4 * 900000 THEN "high"
  ELSE ""

ManualLapRow(id, lapTimeMs, isPublic) ==
  [id |-> id, user_id |-> PageUser, track_id |-> PageTrack,
   car_id |-> JStr(PageCar), lap_time_ms |-> lapTimeMs, date |-> JNull,
   is_public |-> isPublic, session_label |-> JNull, conditions |-> JNull,
   temperature_band |-> JNull, source |-> "manual"]

SortByLapTime_asAppended(rows) == rows

\* [...rows].sort((a, b) => a.lap_time_ms - b.lap_time_ms): a stable sort.
RECURSIVE SortByLapTime(_)
SortByLapTime(rows) ==
  IF rows = <<>> THEN <<>>
  ELSE LET last == rows[Len(rows)]
           front == SortByLapTime(SubSeq(rows, 1, Len(rows) - 1))
           k == Cardinality({i \in 1..Len(front) :
                  Quarters(front[i].lap_time_ms) <= Quarters(last.lap_time_ms)})
       IN  SubSeq(front, 1, k) \o <<last>> \o SubSeq(front, k + 1, Len(front))

QsIdle == [data |-> <<>>, error |-> FALSE, staged |-> <<>>]

\* The form is submitted with entry e; loggedIn and storeFails are what
\* auth.getUser and the insert answer.
handleAddLap(e, loggedIn, storeFails) ==
  /\ FormValid(e)
  /\ Len(lapsTable) < MaxLapRows
  /\ entry' = e
  /\ IF ~loggedIn
     THEN /\ errorMsg' = "login"
          /\ UNCHANGED <<laps, lapsTable>>
     ELSE IF LapTimeError(e) # ""
     THEN /\ errorMsg' = LapTimeError(e)
          /\ UNCHANGED <<laps, lapsTable>>
     ELSE IF storeFails
     THEN /\ errorMsg' = "store"
          /\ UNCHANGED <<laps, lapsTable>>
     ELSE LET data == ManualLapRow(Len(lapsTable) + 1, TotalMs(e), FALSE)
          IN  /\ lapsTable' = Append(lapsTable, data)
              /\ laps' = SortByLapTime(Append(laps, data))
              /\ errorMsg' = ""
  /\ ev' = "handleAddLap"
  /\ UNCHANGED <<qsLaps, qsNextId, qsSaving, qsError, qsSuccess, qsInsert,
                 phone_sessions, outsideLapsPage>>

handleAddQsLap(e) ==
  /\ Len(qsLaps) < MaxStaged
  /\ qsNextId < MaxQsId
  /\ entry' = e
  /\ qsError' = LapTimeError(e)
  /\ IF LapTimeError(e) # ""
     THEN UNCHANGED <<qsLaps, qsNextId>>
     ELSE /\ qsLaps' = Append(qsLaps, [id |-> qsNextId, lapTimeMs |-> TotalMs(e)])
          /\ qsNextId' = qsNextId + 1
  /\ ev' = "handleAddQsLap"
  /\ UNCHANGED <<laps, errorMsg, qsSaving, qsSuccess, qsInsert, storeVars,
                 outsideLapsPage>>

handleRemoveQsLap(id) ==
  /\ \E i \in 1..Len(qsLaps) : qsLaps[i].id = id
  /\ qsLaps' = SelectSeq(qsLaps, LAMBDA lap : lap.id # id)
  /\ ev' = "handleRemoveQsLap"
  /\ UNCHANGED <<laps, errorMsg, qsNextId, qsSaving, qsError, qsSuccess,
                 qsInsert, entry, storeVars, outsideLapsPage>>

\* The save button is clicked (it is enabled if no save is awaited and a lap
\* is staged) with track and car selected or not; the handler runs up to the
\* insert it awaits.
handleSaveQuickSession(selected, loggedIn, storeFails) ==
  /\ ~qsSaving
  /\ qsLaps # <<>>
  /\ Len(lapsTable) + Len(qsLaps) <= MaxLapRows
  /\ qsSuccess' = FALSE
  /\ IF ~selected
     THEN /\ qsError' = "select"
          /\ UNCHANGED <<qsSaving, qsInsert, lapsTable>>
     ELSE IF ~loggedIn
     THEN /\ qsError' = "login"
          /\ UNCHANGED <<qsSaving, qsInsert, lapsTable>>
     ELSE /\ qsError' = ""
          /\ qsSaving' = TRUE
          /\ IF storeFails
             THEN /\ qsInsert' = [data |-> <<>>, error |-> TRUE, staged |-> qsLaps]
                  /\ UNCHANGED lapsTable
             ELSE LET lapsToInsert ==
                        [i \in 1..Len(qsLaps) |->
                           ManualLapRow(Len(lapsTable) + i, qsLaps[i].lapTimeMs, TRUE)]
                  IN  /\ lapsTable' = lapsTable \o lapsToInsert
                      /\ qsInsert' = [data |-> lapsToInsert, error |-> FALSE,
                                     staged |-> qsLaps]
  /\ ev' = "handleSaveQuickSession"
  /\ UNCHANGED <<laps, errorMsg, qsLaps, qsNextId, entry, phone_sessions,
                 outsideLapsPage>>

\* The awaited insert returns and handleSaveQuickSession runs to its end
\* (lines 393-409).
SaveQuickSessionReturns ==
  /\ qsSaving
  /\ qsSaving' = FALSE
  /\ qsInsert' = QsIdle
  /\ IF qsInsert.error
     THEN /\ qsError' = "store"
          /\ UNCHANGED <<laps, qsSuccess, qsLaps, qsNextId>>
     ELSE /\ laps' = SortByLapTime(laps \o qsInsert.data)
          /\ qsSuccess' = TRUE
          /\ qsLaps' = <<>>
          /\ qsNextId' = 1
          /\ UNCHANGED qsError
  /\ ev' = "SaveQuickSessionReturns"
  /\ UNCHANGED <<errorMsg, entry, storeVars, outsideLapsPage>>

handleClearQuickSession ==
  /\ qsLaps # <<>>
  /\ qsLaps' = <<>>
  /\ qsNextId' = 1
  /\ qsError' = ""
  /\ qsSuccess' = FALSE
  /\ ev' = "handleClearQuickSession"
  /\ UNCHANGED <<laps, errorMsg, qsSaving, qsInsert, entry, storeVars,
                 outsideLapsPage>>

\* The page after loadData, for a driver without laps.
LapsPageInit ==
  /\ laps = <<>>
  /\ errorMsg = ""
  /\ qsLaps = <<>>
  /\ qsNextId = 1
  /\ qsSaving = FALSE
  /\ qsError = ""
  /\ qsSuccess = FALSE
  /\ qsInsert = QsIdle
  /\ entry = NoEntry

LapsPageIdle == LapsPageInit

LapsPageNext ==
  \/ \E e \in Entries, loggedIn, storeFails \in BOOLEAN :
       handleAddLap(e, loggedIn, storeFails)
  \/ \E e \in Entries : handleAddQsLap(e)
  \/ \E id \in 1..MaxQsId : handleRemoveQsLap(id)
  \/ \E selected, loggedIn, storeFails \in BOOLEAN :
       handleSaveQuickSession(selected, loggedIn, storeFails)
  \/ SaveQuickSessionReturns
  \/ handleClearQuickSession

(***************************************************************************)
(* The laps page: properties                                               *)
(***************************************************************************)

InRange(ms) == Quarters(ms) >= 4 * 20000 /\ Quarters(ms) <= 4 * 900000

\* C1: with totalMs = minutes*60000 + seconds*1000 + milliseconds, an entry of
\* the single-lap form or of the quick session with totalMs < 20000 or
\* totalMs > 900000 is rejected with an error, and neither a row is inserted
\* nor the staged list changed; totalMs = 20000 and totalMs = 900000 are
\* accepted; and every staged lap and every manually inserted row has a lap
\* time within [20000, 900000].
C1_PlausibilityGuard ==
  /\ [](/\ \A i \in 1..Len(qsLaps) : InRange(qsLaps[i].lapTimeMs)
        /\ \A i \in 1..Len(lapsTable) :
             lapsTable[i].source = "manual" => InRange(lapsTable[i].lap_time_ms)
        /\ \A i \in 1..Len(laps) : InRange(laps[i].lap_time_ms))
  /\ [][(/\ ev' \in {"handleAddLap", "handleAddQsLap"}
         /\ Blank \notin {entry'.minutes, entry'.seconds, entry'.millis}
         /\ ~InRange(TotalMs(entry')))
        => /\ UNCHANGED <<lapsTable, laps, qsLaps>>
           /\ (ev' = "handleAddQsLap" => qsError' \in {"low", "high"})
           /\ (ev' = "handleAddLap" => errorMsg' \in {"low", "high", "login"})]_vars
  /\ [][(/\ ev' = "handleAddQsLap"
         /\ entry' \in {Entry(JNum(0), JNum(20), JNum(0)),
                        Entry(JNum(15), JNum(0), JNum(0))})
        => /\ qsLaps' = Append(qsLaps, [id |-> qsNextId, lapTimeMs |-> TotalMs(entry')])
           /\ qsError' = ""]_vars
  /\ [][(/\ ev' = "handleAddLap"
         /\ entry' \in {Entry(JNum(0), JNum(20), JNum(0)),
                        Entry(JNum(15), JNum(0), JNum(0))})
        => /\ errorMsg' \in {"", "login", "store"}
           /\ errorMsg' = "" =>
                /\ Len(lapsTable') = Len(lapsTable) + 1
                /\ lapsTable'[Len(lapsTable')].lap_time_ms = TotalMs(entry')
                /\ lapsTable'[Len(lapsTable')].source = "manual"]_vars

C1_Witness ==
  /\ ev = "SaveQuickSessionReturns"
  /\ Len(lapsTable) = 2
  /\ lapsTable[1].lap_time_ms = JNum(900000)
  /\ lapsTable[2].lap_time_ms = JNum(20000)
  /\ laps = <<lapsTable[2], lapsTable[1]>>

\* C24: a staged lap leaves the staged list of the quick session only by
\* an explicit remove, by Clear all, or by having been persisted by a
\* successful save; so a lap that handleAddQsLap staged while a save was
\* awaiting the store is among the laps that save persisted, or is still
\* staged when the save has completed.
C24_NoLostLaps ==
  [][\A i \in 1..Len(qsLaps) :
       (\A j \in 1..Len(qsLaps') : qsLaps'[j] # qsLaps[i])
         => \/ ev' = "handleRemoveQsLap"
            \/ ev' = "handleClearQuickSession"
            \/ /\ ev' = "SaveQuickSessionReturns"
               /\ ~qsInsert.error
               /\ \E k \in 1..Len(qsInsert.staged) :
                    qsInsert.staged[k] = qsLaps[i]]_vars

(***************************************************************************)
(* The tables the pages read                                               *)
(***************************************************************************)

\* How many rows table laps holds in a behaviour of the pages that read it.
MaxTableLaps == 3

\* Tables tracks and cars as these pages read them, and the drivers.
ViewTracks == {"t1", "t2"}

ViewCars == {[id |-> "c1", user_id |-> "u1"], [id |-> "c2", user_id |-> "u2"]}

Ann == <<"A","n","n">>

Bob == <<"B","o","b">>

\* A row of table laps; car is a string or null.
LapRow(id, user, track, car, ms, isPublic) ==
  [id |-> id, user_id |-> user, track_id |-> track, car_id |-> car,
   lap_time_ms |-> JNum(ms), date |-> JNull, is_public |-> isPublic,
   session_label |-> JNull, conditions |-> JNull, temperature_band |-> JNull,
   source |-> "manual"]

\* The laps a behaviour draws table laps from.
LapPool ==
  << LapRow(1, "u1", "t1", JStr("c1"), 90000, TRUE),
     LapRow(2, "u1", "t1", JStr("c1"), 85000, FALSE),
     LapRow(3, "u1", "t2", JStr("c1"), 70000, TRUE),
     LapRow(4, "u2", "t1", JStr("c2"), 85000, TRUE),
     LapRow(5, "u2", "t1", JNull, 90000, TRUE),
     LapRow(6, "u1", "t1", JStr("c1"), 85000, TRUE) >>

\* The rows of seq whose index is in I, in the order of seq.
RECURSIVE Pick(_, _)
Pick(seq, I) ==
  IF seq = <<>> THEN <<>>
  ELSE LET front == Pick(SubSeq(seq, 1, Len(seq) - 1), I)
       IN  IF Len(seq) \in I THEN Append(front, seq[Len(seq)]) ELSE front

\* A row of table profiles: display_name is a string or null, and
\* is_public_profile is "true", "false" or "null".
ProfileRow(id, name, isPublicProfile) ==
  [id |-> id, display_name |-> name, is_public_profile |-> isPublicProfile]

\* What table profiles may hold: Ann's public row, and Bob's, which may be
\* public or private, lack the flag or the name, or be missing.
ProfilesTables ==
  { {ProfileRow("u1", Some(Ann), "true")} \cup b :
      b \in { {ProfileRow("u2", Some(Bob), f)} : f \in {"true", "false", "null"} }
            \cup { {ProfileRow("u2", Null, "true")}, {} } }

\* Who may be signed in, and who auth.getUser answers: the driver signed in,
\* or "none" for an error or no session.
Viewers == {"none", "u1", "u2"}

GetUserAnswers == {sessionUser, "none"}

RowsOf(table) == {table[i] : i \in 1..Len(table)}

\* .order('lap_time_ms', { ascending: true }) over the rows S: the rows in
\* ascending order of lap time; rows of equal time come in either order.
RECURSIVE OrderByLapTime(_)
OrderByLapTime(S) ==
  IF S = {} THEN {<<>>}
  ELSE UNION { { <<r>> \o rest : rest \in OrderByLapTime(S \ {r}) } :
               r \in { x \in S : \A y \in S :
                         Quarters(x.lap_time_ms) <= Quarters(y.lap_time_ms) } }

\* The first of the reads in order that is in failed, "" when none is.
FirstFailed(order, failed) ==
  IF \E i \in 1..Len(order) : order[i] \in failed
  THEN order[CHOOSE i \in 1..Len(order) :
               /\ order[i] \in failed
               /\ \A j \in 1..(i - 1) : order[j] \notin failed]
  ELSE ""

\* The answers a page's reads may give: none fails, one fails, or all fail.
Failures(order) ==
  {{}} \cup {{order[i]} : i \in 1..Len(order)}
       \cup {{order[i] : i \in 1..Len(order)}}

\* No page is shown.
NoPage == [name |-> "none"]

\* profileMap.get(id): the rows with that id (one, or none for undefined).
ProfileOf(profiles, id) == {p \in profiles : p.id = id}

\* A driver's name as a lap row shows it: a display name, or one of the
\* page's fixed texts.
NameShown(kind, text) == [kind |-> kind, s |-> text]

\* str.includes(sub)
Includes(str, sub) ==
  \E i \in 0..(Len(str) - Len(sub)) : SubSeq(str, i + 1, i + Len(sub)) = sub

(***************************************************************************)
(* The track detail page (TrackDetailPage)                                 *)
(***************************************************************************)

\* The routes opened: a track of the table, or one that is not in it.
TrackRoutes == ViewTracks \cup {"t9"}

\* The page as constructed. track, userId and errorMsg are "" for null; the
\* cars are read but not kept here, as they only name the car of a row.
TrackPageMounted(trackId) ==
  [name |-> "track", trackId |-> trackId, track |-> "", laps |-> <<>>,
   publicLaps |-> <<>>, profiles |-> {}, userId |-> "", loading |-> TRUE,
   errorMsg |-> ""]

TrackReads == <<"track", "laps", "cars", "publicLaps", "allCars", "profiles">>

OpenTrackPage(trackId) ==
  /\ page' = TrackPageMounted(trackId)
  /\ ev' = "OpenTrackPage"
  /\ UNCHANGED <<outsideViews, lapsTable, profilesTable, sessionUser>>

\* loadData resolves: user is who getUser answers and failed the reads that
\* answer an error; myLaps and pubLaps are what the two ordered reads answer.
TrackDetail_loadData(user, failed) ==
  /\ page.name = "track" /\ page.loading
  /\ user \in GetUserAnswers
  /\ \E myLaps \in OrderByLapTime({l \in RowsOf(lapsTable) :
                      l.user_id = user /\ l.track_id = page.trackId}),
        pubLaps \in OrderByLapTime({l \in RowsOf(lapsTable) :
                      l.track_id = page.trackId /\ l.is_public = TRUE}) :
     page' =
       IF user = "none"
       THEN [page EXCEPT !.errorMsg = "You must be logged in",
                         !.loading = FALSE]
       ELSE IF "track" \in failed
       THEN [page EXCEPT !.userId = user, !.errorMsg = "track",
                         !.loading = FALSE]
       ELSE IF page.trackId \notin ViewTracks
       THEN [page EXCEPT !.userId = user, !.errorMsg = "Track not found.",
                         !.loading = FALSE]
       ELSE IF failed # {}
       THEN [page EXCEPT !.userId = user,
                         !.errorMsg = FirstFailed(TrackReads, failed),
                         !.loading = FALSE]
       ELSE [page EXCEPT !.userId = user, !.track = page.trackId,
                         !.laps = myLaps, !.publicLaps = pubLaps,
                         !.profiles = profilesTable, !.loading = FALSE]
  /\ ev' = "TrackDetail_loadData"
  /\ UNCHANGED <<outsideViews, lapsTable, profilesTable, sessionUser>>

\* What the page renders: the loading line, the error alone, or the track.
TrackScreen(p) ==
  IF p.loading THEN "loading"
  ELSE IF p.errorMsg # "" \/ p.track = "" THEN "error"
  ELSE "track"

\* myBestLap is laps[0], or null when laps is empty.
HasMyBestLap(p) == p.laps # <<>>

myBestLap(p) == p.laps[1]

\* publicLaps.findIndex(...): the index from 0 of the first lap of the
\* driver, -1 when there is none.
myPublicBestIndex(p) ==
  IF \E i \in 1..Len(p.publicLaps) : p.publicLaps[i].user_id = p.userId
  THEN (CHOOSE i \in 1..Len(p.publicLaps) :
          /\ p.publicLaps[i].user_id = p.userId
          /\ \A j \in 1..(i - 1) : p.publicLaps[j].user_id # p.userId) - 1
  ELSE -1

\* 0 stands for null.
myPublicBestRank(p) ==
  IF myPublicBestIndex(p) >= 0 THEN myPublicBestIndex(p) + 1 ELSE 0

myBestIsPublic(p) == HasMyBestLap(p) /\ myBestLap(p).is_public = TRUE

\* A variant that shows the rank whenever the driver has a public lap.
RankLineShown_anyRank(p) ==
  /\ TrackScreen(p) = "track" /\ HasMyBestLap(p)
  /\ myPublicBestRank(p) # 0

\* The line 'Your public best on this track ranks #... globally.' is shown.
RankLineShown(p) ==
  /\ TrackScreen(p) = "track" /\ HasMyBestLap(p)
  /\ myBestIsPublic(p) /\ myPublicBestRank(p) # 0

\* The line 'This lap is private and does not count ...' is shown.
PrivateNoticeShown(p) ==
  /\ TrackScreen(p) = "track" /\ HasMyBestLap(p)
  /\ ~myBestIsPublic(p)

\* The driver name of a leaderboard row.
TrackDriverName(p, lap) ==
  LET profile == ProfileOf(p.profiles, lap.user_id)
      isPublicProfile ==
        IF profile = {} THEN TRUE
        ELSE (CHOOSE x \in profile : TRUE).is_public_profile # "false"
  IN  IF lap.user_id = p.userId THEN NameShown("You", <<>>)
      ELSE IF profile # {} /\ isPublicProfile
      THEN LET pr == CHOOSE x \in profile : TRUE
           IN  IF pr.display_name.null \/ pr.display_name.s = <<>>
               THEN NameShown("Unnamed driver", <<>>)
               ELSE NameShown("name", pr.display_name.s)
      ELSE NameShown("Anonymous driver", <<>>)

\* The rows of the track leaderboard: publicLaps.slice(0, 10), numbered.
TrackLeaderboard(p) ==
  IF TrackScreen(p) # "track" THEN <<>>
  ELSE [i \in 1..(IF Len(p.publicLaps) < 10 THEN Len(p.publicLaps) ELSE 10) |->
          [position |-> i, lap |-> p.publicLaps[i],
           driverName |-> TrackDriverName(p, p.publicLaps[i])]]

(***************************************************************************)
(* The leaderboards page (LeaderboardsPage)                                *)
(***************************************************************************)

\* The page as constructed. errorMsg is "" for null; tracks and cars hold the
\* ids of the rows read, which are the values of the two selects.
BoardsPageMounted ==
  [name |-> "boards", loading |-> TRUE, errorMsg |-> "", isLoggedIn |-> FALSE,
   tracks |-> {}, cars |-> {}, profiles |-> {}, laps |-> <<>>,
   selectedTrackId |-> "", selectedCarId |-> "", driverSearch |-> <<>>]

BoardsReads == <<"tracks", "cars", "profiles", "laps">>

\* What is typed into the search inputs.
SearchTexts ==
  { <<>>, <<" ">>, <<"a","n">>, <<" ","B"," ">> }

OpenBoardsPage ==
  /\ page' = BoardsPageMounted
  /\ ev' = "OpenBoardsPage"
  /\ UNCHANGED <<outsideViews, lapsTable, profilesTable, sessionUser>>

\* loadData resolves: the profiles are read as id and display_name only.
Boards_loadData(user, failed) ==
  /\ page.name = "boards" /\ page.loading
  /\ user \in GetUserAnswers
  /\ \E pubLaps \in
          OrderByLapTime({l \in RowsOf(lapsTable) : l.is_public = TRUE}) :
     page' =
       IF user = "none"
       THEN [page EXCEPT !.isLoggedIn = FALSE, !.loading = FALSE]
       ELSE IF failed # {}
       THEN [page EXCEPT !.isLoggedIn = TRUE,
                         !.errorMsg = FirstFailed(BoardsReads, failed),
                         !.loading = FALSE]
       ELSE [page EXCEPT !.isLoggedIn = TRUE,
                         !.tracks = ViewTracks,
                         !.cars = {c.id : c \in ViewCars},
                         !.profiles = {[id |-> p.id,
                                        display_name |-> p.display_name] :
                                         p \in profilesTable},
                         !.laps = pubLaps, !.loading = FALSE]
  /\ ev' = "Boards_loadData"
  /\ UNCHANGED <<outsideViews, lapsTable, profilesTable, sessionUser>>

\* What the page renders: the loading line, the login prompt, or the filter
\* bar and the leaderboard.
BoardsScreen(p) ==
  IF p.loading THEN "loading"
  ELSE IF ~p.isLoggedIn THEN "login"
  ELSE "boards"

\* The three filters are changed while the filter bar is shown.
Boards_setSelectedTrackId(value) ==
  /\ page.name = "boards" /\ BoardsScreen(page) = "boards"
  /\ value \in {""} \cup page.tracks
  /\ page' = [page EXCEPT !.selectedTrackId = value]
  /\ ev' = "Boards_setSelectedTrackId"
  /\ UNCHANGED <<outsideViews, lapsTable, profilesTable, sessionUser>>

Boards_setSelectedCarId(value) ==
  /\ page.name = "boards" /\ BoardsScreen(page) = "boards"
  /\ value \in {""} \cup page.cars
  /\ page' = [page EXCEPT !.selectedCarId = value]
  /\ ev' = "Boards_setSelectedCarId"
  /\ UNCHANGED <<outsideViews, lapsTable, profilesTable, sessionUser>>

Boards_setDriverSearch(value) ==
  /\ page.name = "boards" /\ BoardsScreen(page) = "boards"
  /\ value \in SearchTexts
  /\ page' = [page EXCEPT !.driverSearch = value]
  /\ ev' = "Boards_setDriverSearch"
  /\ UNCHANGED <<outsideViews, lapsTable, profilesTable, sessionUser>>

\* profile?.display_name ?? '' of the driver of a lap
DisplayNameOrEmpty(profiles, id) ==
  LET profile == ProfileOf(profiles, id)
  IN  IF profile = {} THEN <<>>
      ELSE LET pr == CHOOSE x \in profile : TRUE
           IN  IF pr.display_name.null THEN <<>> ELSE pr.display_name.s

\* The name filter both search inputs apply: with a search text that is not
\* blank, a name is kept when its lower case includes the trimmed, lower-case
\* text.  A variant that compares the name as it is written:
SearchKeeps_caseSensitive(search, displayName) ==
  \/ Trim(search) = <<>>
  \/ Includes(displayName, toLowerCase(Trim(search)))

SearchKeeps(search, displayName) ==
  \/ Trim(search) = <<>>
  \/ Includes(toLowerCase(displayName), toLowerCase(Trim(search)))

\* filteredLaps: the laps after the filters that are set, sorted.
filteredLaps(p) ==
  LET byTrack ==
        IF p.selectedTrackId # ""
        THEN SelectSeq(p.laps, LAMBDA l : l.track_id = p.selectedTrackId)
        ELSE p.laps
      byCar ==
        IF p.selectedCarId # ""
        THEN SelectSeq(byTrack, LAMBDA l : l.car_id = JStr(p.selectedCarId))
        ELSE byTrack
      bySearch ==
        SelectSeq(byCar, LAMBDA l :
          SearchKeeps(p.driverSearch, DisplayNameOrEmpty(p.profiles, l.user_id)))
  IN  SortByLapTime(bySearch)

\* profile?.display_name ?? 'Unknown driver'
BoardsDriverName(p, lap) ==
  LET profile == ProfileOf(p.profiles, lap.user_id)
  IN  IF profile = {} THEN NameShown("Unknown driver", <<>>)
      ELSE LET pr == CHOOSE x \in profile : TRUE
           IN  IF pr.display_name.null THEN NameShown("Unknown driver", <<>>)
               ELSE NameShown("name", pr.display_name.s)

\* The rows of the leaderboard: none while no track is selected.
BoardsRows(p) ==
  IF BoardsScreen(p) # "boards" \/ p.selectedTrackId = "" THEN <<>>
  ELSE LET f == filteredLaps(p)
       IN  [i \in 1..Len(f) |->
              [position |-> i, lap |-> f[i],
               driverName |-> BoardsDriverName(p, f[i])]]

(***************************************************************************)
(* The driver page (DriverProfilePage)                                     *)
(***************************************************************************)

\* The routes opened: a driver, or an id no driver has.
DriverRoutes == {"u1", "u2", "u9"}

\* The page as constructed. viewerId and errorMsg are "" for null, profile is
\* the row read, {} for null; the cars and tracks only name a lap's car and
\* track and are not kept here.
DriverPageMounted(userId) ==
  [name |-> "driver", userId |-> userId, loading |-> TRUE, errorMsg |-> "",
   viewerId |-> "", profile |-> {}, laps |-> <<>>]

DriverReads == <<"profile", "cars", "laps", "tracks">>

OpenDriverPage(userId) ==
  /\ page' = DriverPageMounted(userId)
  /\ ev' = "OpenDriverPage"
  /\ UNCHANGED <<outsideViews, lapsTable, profilesTable, sessionUser>>

\* loadData resolves; pubLaps is what the read of the driver's public laps
\* answers.
Driver_loadData(user, failed) ==
  /\ page.name = "driver" /\ page.loading
  /\ user \in GetUserAnswers
  /\ \E pubLaps \in OrderByLapTime({l \in RowsOf(lapsTable) :
                       l.user_id = page.userId /\ l.is_public = TRUE}) :
     LET currentUserId == IF user = "none" THEN "" ELSE user
         profileRes == ProfileOf(profilesTable, page.userId)
     IN  page' =
           IF "profile" \in failed
           THEN [page EXCEPT !.viewerId = currentUserId,
                             !.errorMsg = "profile", !.loading = FALSE]
           ELSE IF profileRes = {}
           THEN [page EXCEPT !.viewerId = currentUserId,
                             !.errorMsg = "Driver not found.",
                             !.loading = FALSE]
           ELSE IF failed # {}
           THEN [page EXCEPT !.viewerId = currentUserId,
                             !.errorMsg = FirstFailed(DriverReads, failed),
                             !.loading = FALSE]
           ELSE [page EXCEPT !.viewerId = currentUserId,
                             !.profile = profileRes, !.laps = pubLaps,
                             !.loading = FALSE]
  /\ ev' = "Driver_loadData"
  /\ UNCHANGED <<outsideViews, lapsTable, profilesTable, sessionUser>>

isOwnProfile(p) == \E pr \in p.profile : p.viewerId = pr.id

\* profile.is_public_profile ?? true
isPublicProfile(p) == \A pr \in p.profile : pr.is_public_profile # "false"

\* What the page renders: the loading line, the error alone, the private
\* message alone, or the profile.
DriverScreen(p) ==
  IF p.loading THEN "loading"
  ELSE IF p.errorMsg # "" \/ p.profile = {} THEN "error"
  ELSE IF ~isPublicProfile(p) /\ ~isOwnProfile(p) THEN "private"
  ELSE "profile"

\* pbByTrack of a list of laps: for each track of the list, the first lap of
\* the list on that track.
pbByTrack(lapList) ==
  [t \in {lapList[i].track_id : i \in 1..Len(lapList)} |->
     lapList[CHOOSE i \in 1..Len(lapList) :
               /\ lapList[i].track_id = t
               /\ \A j \in 1..(i - 1) : lapList[j].track_id # t]]

\* The track PBs section of the profile.
TrackPBs(p) ==
  IF DriverScreen(p) = "profile" THEN pbByTrack(p.laps) ELSE << >>

\* profile.display_name || 'Unknown driver', in the heading of the profile.
DriverHeading(p) ==
  LET pr == CHOOSE x \in p.profile : TRUE
  IN  IF pr.display_name.null \/ pr.display_name.s = <<>>
      THEN NameShown("Unknown driver", <<>>)
      ELSE NameShown("name", pr.display_name.s)

(***************************************************************************)
(* The drivers page (DriversPage)                                          *)
(***************************************************************************)

\* The page as constructed; errorMsg is "" for null. The cars and laps read
\* only fill in a card's main car and counts and are not kept here.
DriversPageMounted ==
  [name |-> "drivers", loading |-> TRUE, isLoggedIn |-> FALSE,
   errorMsg |-> "", profiles |-> {}, search |-> <<>>]

DriversReads == <<"profiles", "cars", "laps">>

OpenDriversPage ==
  /\ page' = DriversPageMounted
  /\ ev' = "OpenDriversPage"
  /\ UNCHANGED <<outsideViews, lapsTable, profilesTable, sessionUser>>

\* loadData resolves: the profiles read are those with is_public_profile true.
Drivers_loadData(user, failed) ==
  /\ page.name = "drivers" /\ page.loading
  /\ user \in GetUserAnswers
  /\ page' =
       IF user = "none"
       THEN [page EXCEPT !.isLoggedIn = FALSE, !.loading = FALSE]
       ELSE IF failed # {}
       THEN [page EXCEPT !.isLoggedIn = TRUE,
                         !.errorMsg = FirstFailed(DriversReads, failed),
                         !.loading = FALSE]
       ELSE [page EXCEPT !.isLoggedIn = TRUE,
                         !.profiles = {p \in profilesTable :
                                         p.is_public_profile = "true"},
                         !.loading = FALSE]
  /\ ev' = "Drivers_loadData"
  /\ UNCHANGED <<outsideViews, lapsTable, profilesTable, sessionUser>>

DriversScreen(p) ==
  IF p.loading THEN "loading"
  ELSE IF ~p.isLoggedIn THEN "login"
  ELSE "drivers"

setSearch(value) ==
  /\ page.name = "drivers" /\ DriversScreen(page) = "drivers"
  /\ value \in SearchTexts
  /\ page' = [page EXCEPT !.search = value]
  /\ ev' = "setSearch"
  /\ UNCHANGED <<outsideViews, lapsTable, profilesTable, sessionUser>>

\* filteredProfiles: the profiles of the cards shown.
filteredProfiles(p) ==
  IF DriversScreen(p) # "drivers" THEN {}
  ELSE {pr \in p.profiles :
          SearchKeeps(p.search,
                      IF pr.display_name.null THEN <<>> ELSE pr.display_name.s)}

(***************************************************************************)
(* The home page (HomePage)                                                *)
(***************************************************************************)

\* The page as constructed; user is "" for null, tracks holds the ids read.
HomePageMounted ==
  [name |-> "home", user |-> "", loading |-> TRUE, userPublicLaps |-> <<>>,
   tracks |-> {}]

HomeReads == <<"laps", "tracks">>

OpenHomePage ==
  /\ page' = HomePageMounted
  /\ ev' = "OpenHomePage"
  /\ UNCHANGED <<outsideViews, lapsTable, profilesTable, sessionUser>>

\* loadData resolves: a read that answers an error leaves its list as it was.
Home_loadData(user, failed) ==
  /\ page.name = "home" /\ page.loading
  /\ user \in GetUserAnswers
  /\ \E pubLaps \in OrderByLapTime({l \in RowsOf(lapsTable) :
                       l.user_id = user /\ l.is_public = TRUE}) :
     page' =
       IF user = "none"
       THEN [page EXCEPT !.user = "", !.loading = FALSE]
       ELSE [page EXCEPT !.user = user,
                         !.userPublicLaps =
                            IF "laps" \notin failed THEN pubLaps ELSE @,
                         !.tracks =
                            IF "tracks" \notin failed THEN ViewTracks ELSE @,
                         !.loading = FALSE]
  /\ ev' = "Home_loadData"
  /\ UNCHANGED <<outsideViews, lapsTable, profilesTable, sessionUser>>

\* What the page renders: the loading line, the landing, or the dashboard.
HomeScreen(p) ==
  IF p.loading THEN "loading"
  ELSE IF p.user = "" THEN "landing"
  ELSE "dashboard"

(***************************************************************************)
(* The pages together                                                      *)
(***************************************************************************)

\* The page shows an error message: the track and driver pages render it
\* alone, the leaderboards and drivers pages as a line above their lists;
\* the home page has none.
ErrorShown(p) ==
  CASE p.name = "track"   -> TrackScreen(p) = "error" /\ p.errorMsg # ""
    [] p.name = "boards"  -> BoardsScreen(p) = "boards" /\ p.errorMsg # ""
    [] p.name = "driver"  -> DriverScreen(p) = "error" /\ p.errorMsg # ""
    [] p.name = "drivers" -> DriversScreen(p) = "drivers" /\ p.errorMsg # ""
    [] OTHER              -> FALSE

\* The page renders the view that is built from what its reads answered.
DataViewShown(p) ==
  CASE p.name = "track"   -> TrackScreen(p) = "track"
    [] p.name = "boards"  -> BoardsScreen(p) = "boards"
    [] p.name = "driver"  -> DriverScreen(p) \in {"private", "profile"}
    [] p.name = "drivers" -> DriversScreen(p) = "drivers"
    [] p.name = "home"    -> HomeScreen(p) = "dashboard"
    [] OTHER              -> FALSE

ViewsIdle == profilesTable = {} /\ sessionUser = "none" /\ page = NoPage

ViewsInit ==
  /\ \E I \in SUBSET (1..Len(LapPool)) :
       /\ Cardinality(I) <= MaxTableLaps
       /\ lapsTable = Pick(LapPool, I)
  /\ profilesTable \in ProfilesTables
  /\ sessionUser \in Viewers
  /\ phone_sessions = <<>>
  /\ page = NoPage

ViewsNext ==
  \/ OpenHomePage
  \/ \E user \in Viewers, failed \in Failures(HomeReads) :
       Home_loadData(user, failed)
  \/ \E trackId \in TrackRoutes : OpenTrackPage(trackId)
  \/ \E user \in Viewers, failed \in Failures(TrackReads) :
       TrackDetail_loadData(user, failed)
  \/ OpenBoardsPage
  \/ \E user \in Viewers, failed \in Failures(BoardsReads) :
       Boards_loadData(user, failed)
  \/ \E value \in ViewTracks \cup {""} : Boards_setSelectedTrackId(value)
  \/ \E value \in {c.id : c \in ViewCars} \cup {""} :
       Boards_setSelectedCarId(value)
  \/ \E value \in SearchTexts : Boards_setDriverSearch(value)
  \/ \E userId \in DriverRoutes : OpenDriverPage(userId)
  \/ \E user \in Viewers, failed \in Failures(DriverReads) :
       Driver_loadData(user, failed)
  \/ OpenDriversPage
  \/ \E user \in Viewers, failed \in Failures(DriversReads) :
       Drivers_loadData(user, failed)
  \/ \E value \in SearchTexts : setSearch(value)

(***************************************************************************)
(* The pages: properties                                                   *)
(***************************************************************************)

\* The public laps of a track in table laps.
PublicLapsOfTrack(trackId) ==
  {l \in RowsOf(lapsTable) : l.track_id = trackId /\ l.is_public = TRUE}

\* rows is a global leaderboard of the track: its laps are public laps of
\* the track, fastest first, and each position is the lap's place in one
\* ascending order of all the public laps of the track.
IsGlobalLeaderboard(rows, trackId) ==
  /\ \A i \in 1..Len(rows) :
       rows[i].lap.is_public = TRUE /\ rows[i].lap.track_id = trackId
  /\ \A i, j \in 1..Len(rows) :
       i < j => Quarters(rows[i].lap.lap_time_ms)
                  <= Quarters(rows[j].lap.lap_time_ms)
  /\ \E all \in OrderByLapTime(PublicLapsOfTrack(trackId)) :
       \A i \in 1..Len(rows) :
         /\ rows[i].position \in 1..Len(all)
         /\ all[rows[i].position] = rows[i].lap

\* C15: the rows shown for a track are public laps of that track in ascending
\* order of lap time, and the position beside a lap is its place among all
\* the public laps of the track in ascending order, on the track detail page
\* and on the leaderboards page under every car filter and driver search.
C15_GlobalPositions ==
  /\ page.name = "track" =>
       IsGlobalLeaderboard(TrackLeaderboard(page), page.trackId)
  /\ page.name = "boards" =>
       IsGlobalLeaderboard(BoardsRows(page), page.selectedTrackId)

\* The fastest of the laps S: those no lap of S is faster than.
Fastest(S) ==
  {l \in S : \A y \in S :
     Quarters(l.lap_time_ms) <= Quarters(y.lap_time_ms)}

\* The laps of the page's driver on the page's track in table laps, public
\* or private.
MyLapsOnTrack(p) ==
  {l \in RowsOf(lapsTable) : l.user_id = p.userId /\ l.track_id = p.trackId}

\* C16: on the track detail page the rank shown to the driver is 1 + the
\* index of the first lap with their user id in the track's public laps in
\* ascending order, and it is the position of a lap with their fastest time;
\* when their fastest lap on the track is private the private notice is shown
\* and no rank, when it is public the rank is shown and no notice; the two
\* are never shown together.
C16_OwnRank ==
  (page.name = "track" /\ TrackScreen(page) = "track") =>
    LET best == Fastest(MyLapsOnTrack(page))
        pub  == page.publicLaps
        rank == myPublicBestRank(page)
    IN  /\ pub \in OrderByLapTime(PublicLapsOfTrack(page.trackId))
        /\ ~(RankLineShown(page) /\ PrivateNoticeShown(page))
        /\ RankLineShown(page) =>
             /\ rank \in 1..Len(pub)
             /\ pub[rank].user_id = page.userId
             /\ \A j \in 1..(rank - 1) : pub[j].user_id # page.userId
             /\ \A l \in best : pub[rank].lap_time_ms = l.lap_time_ms
        /\ (best # {} /\ \A l \in best : l.is_public = FALSE) =>
             PrivateNoticeShown(page) /\ ~RankLineShown(page)
        /\ (best # {} /\ \A l \in best : l.is_public = TRUE) =>
             RankLineShown(page) /\ ~PrivateNoticeShown(page)

\* The driver's fastest lap is private while a slower lap of theirs stands
\* second in the public list: the notice is shown and the rank is not.
C16_Witness ==
  /\ page.name = "track" /\ TrackScreen(page) = "track"
  /\ PrivateNoticeShown(page) /\ ~RankLineShown(page)
  /\ myPublicBestRank(page) = 2
  /\ \A l \in Fastest(MyLapsOnTrack(page)) : l.is_public = FALSE

\* pb is the personal-best map of the list of laps input: one entry for each
\* track of the list, which is the first lap of the list on that track and
\* is no slower than any lap of the list on that track.
IsPbMapOf(pb, input) ==
  /\ DOMAIN pb = {input[i].track_id : i \in 1..Len(input)}
  /\ \A t \in DOMAIN pb :
       /\ \E i \in 1..Len(input) :
            /\ input[i] = pb[t]
            /\ input[i].track_id = t
            /\ \A j \in 1..(i - 1) : input[j].track_id # t
       /\ \A i \in 1..Len(input) :
            input[i].track_id = t =>
              Quarters(pb[t].lap_time_ms) <= Quarters(input[i].lap_time_ms)

\* The owner's laps of the example: 90000 public and 85000 private on one
\* track, 70000 public on another.
ExampleLaps == {LapPool[1], LapPool[2], LapPool[3]}

NameMatches(search, displayName) ==
  Includes(toLowerCase(IF displayName.null THEN <<>> ELSE displayName.s),
           toLowerCase(Trim(search)))

\* C18: on the leaderboards page the rows are the laps that pass every
\* filter that is set: the track and car filters keep a lap iff its id is the
\* one selected, the driver search keeps a lap iff the trimmed, lower-cased
\* text is a substring of the driver's lower-cased display name, and no row
\* is shown while no track is selected; on the drivers page the cards are
\* the profiles whose display name passes the search in the same way.
C18_Filters ==
  /\ (page.name = "boards" /\ BoardsScreen(page) = "boards") =>
       LET rows  == BoardsRows(page)
           shown == {rows[i].lap : i \in 1..Len(rows)}
       IN  IF page.selectedTrackId = "" THEN rows = <<>>
           ELSE /\ Len(rows) = Cardinality(shown)
                /\ shown =
                     {l \in RowsOf(page.laps) :
                        /\ l.track_id = page.selectedTrackId
                        /\ page.selectedCarId # "" =>
                             l.car_id = JStr(page.selectedCarId)
                        /\ \E name \in
                              {pr.display_name :
                                 pr \in ProfileOf(page.profiles, l.user_id)}
                              \cup (IF ProfileOf(page.profiles, l.user_id) = {}
                                    THEN {Null} ELSE {}) :
                             NameMatches(page.driverSearch, name)}
  /\ (page.name = "drivers" /\ DriversScreen(page) = "drivers") =>
       filteredProfiles(page) =
         {pr \in page.profiles : NameMatches(page.search, pr.display_name)}

\* The three filters of the leaderboards page are set together, a lap passes
\* them and another lap does not.
C18_Witness ==
  /\ page.name = "boards" /\ BoardsScreen(page) = "boards"
  /\ page.selectedTrackId # "" /\ page.selectedCarId # ""
  /\ Trim(page.driverSearch) # <<>>
  /\ Len(BoardsRows(page)) >= 1
  /\ Len(BoardsRows(page)) < Len(page.laps)

\* A page's loadData resolves with who getUser answers and the reads that
\* answer an error.
LoadDataOf(name, user, failed) ==
  CASE name = "track"   -> TrackDetail_loadData(user, failed)
    [] name = "boards"  -> Boards_loadData(user, failed)
    [] name = "driver"  -> Driver_loadData(user, failed)
    [] name = "drivers" -> Drivers_loadData(user, failed)
    [] name = "home"    -> Home_loadData(user, failed)
    [] OTHER            -> FALSE

ReadsOf(name) ==
  CASE name = "track"   -> TrackReads
    [] name = "boards"  -> BoardsReads
    [] name = "driver"  -> DriverReads
    [] name = "drivers" -> DriversReads
    [] name = "home"    -> HomeReads
    [] OTHER            -> <<>>

\* C19: on every page, a loadData in which a driver is signed in and one of
\* the parallel reads fails begins in the loading state and ends with an error
\* message surfaced and the data view not rendered.
C19_ReadFailures ==
  [][ \A user \in Viewers \ {"none"} :
        \A failed \in Failures(ReadsOf(page.name)) \ {{}} :
          LoadDataOf(page.name, user, failed) =>
            /\ page.loading
            /\ ErrorShown(page')
            /\ ~DataViewShown(page') ]_vars

\* The drivers whose profile is private.
PrivateDrivers ==
  {pr.id : pr \in {x \in profilesTable : x.is_public_profile = "false"}}

\* Every lap of a private driver other than the viewer is attributed to an
\* anonymous driver in the rows.
RowsKeepPrivacy(rows) ==
  \A i \in 1..Len(rows) :
    (rows[i].lap.user_id \in PrivateDrivers
       /\ rows[i].lap.user_id # sessionUser) =>
      rows[i].driverName = NameShown("Anonymous driver", <<>>)

\* C20: for a driver whose profile is private, the track detail leaderboard
\* and the leaderboards page attribute the driver's public laps to an
\* anonymous driver for every other viewer, and the driver page of that
\* driver never shows the profile to anyone but the owner.
C20_ProfilePrivacy ==
  /\ page.name = "track" => RowsKeepPrivacy(TrackLeaderboard(page))
  /\ page.name = "boards" => RowsKeepPrivacy(BoardsRows(page))
  /\ (page.name = "driver" /\ page.userId \in PrivateDrivers
        /\ page.userId # sessionUser) =>
       DriverScreen(page) \in {"loading", "error", "private"}

(***************************************************************************)
(* The laps page: the public flag of a listed lap                          *)
(***************************************************************************)

\* How many updates of a public flag the page sends in one behaviour.
MaxToggles == 3

\* What the toggle operations leave alone.
outsideToggle ==
  <<linkVars, timingVars, ingestVars, fnVars, viewVars, navVars,
    phone_sessions, qsLaps, qsNextId, qsSaving, qsError, qsSuccess, qsInsert,
    entry>>

\* An update of the public flag of lap lapId to nextValue: sent, and then
\* applied or refused by the store.
Toggle(id, lapId, nextValue, stage) ==
  [id |-> id, lapId |-> lapId, nextValue |-> nextValue, stage |-> stage]

\* prev.map((lap) => lap.id === lapId ? { ...lap, is_public: nextValue } : lap)
WithPublic_all(rows, lapId, nextValue) ==
  [i \in 1..Len(rows) |-> [rows[i] EXCEPT !.is_public = nextValue]]

WithPublic(rows, lapId, nextValue) ==
  [i \in 1..Len(rows) |->
     IF rows[i].id = lapId THEN [rows[i] EXCEPT !.is_public = nextValue]
     ELSE rows[i]]

\* The checkbox of listed lap lapId is clicked: it shows !!lap.is_public and
\* hands over e.target.checked, the opposite. The handler clears the error,
\* asks auth.getUser (answer loggedIn) and sends the update.
handleTogglePublic(lapId, loggedIn) ==
  /\ toggleCount < MaxToggles
  /\ \E i \in 1..Len(laps) :
       /\ laps[i].id = lapId
       /\ IF ~loggedIn
          THEN /\ errorMsg' = "login"
               /\ toggleFailed' = TRUE
               /\ UNCHANGED <<toggles, toggleCount>>
          ELSE /\ errorMsg' = ""
               /\ toggles' = toggles \cup
                    {Toggle(toggleCount + 1, lapId, ~laps[i].is_public, "sent")}
               /\ toggleCount' = toggleCount + 1
               /\ UNCHANGED toggleFailed
  /\ ev' = "handleTogglePublic"
  /\ UNCHANGED <<laps, lapsTable, outsideToggle>>

\* The store handles update t, whichever was sent first:
\* update({ is_public: nextValue }).eq('id', lapId), or an error.
StoreAppliesToggle(t, fails) ==
  /\ t \in toggles
  /\ t.stage = "sent"
  /\ IF fails
     THEN /\ toggles' = (toggles \ {t}) \cup {[t EXCEPT !.stage = "failed"]}
          /\ UNCHANGED lapsTable
     ELSE /\ toggles' = (toggles \ {t}) \cup {[t EXCEPT !.stage = "applied"]}
          /\ lapsTable' = WithPublic(lapsTable, t.lapId, t.nextValue)
  /\ ev' = "StoreAppliesToggle"
  /\ UNCHANGED <<laps, errorMsg, toggleCount, toggleFailed, outsideToggle>>

\* The answer to update t reaches the page, whichever was handled first, and
\* handleTogglePublic runs to its end.
TogglePublicReturns(t) ==
  /\ t \in toggles
  /\ t.stage \in {"applied", "failed"}
  /\ IF t.stage = "failed"
     THEN /\ errorMsg' = "store"
          /\ toggleFailed' = TRUE
          /\ UNCHANGED laps
     ELSE /\ laps' = WithPublic(laps, t.lapId, t.nextValue)
          /\ UNCHANGED <<errorMsg, toggleFailed>>
  /\ toggles' = toggles \ {t}
  /\ ev' = "TogglePublicReturns"
  /\ UNCHANGED <<lapsTable, toggleCount, outsideToggle>>

ToggleIdle ==
  /\ toggles = {}
  /\ toggleCount = 0
  /\ toggleFailed = FALSE

\* What loadData fetched: the driver's laps in ascending order of lap time.
FetchedLaps ==
  {<<>>,
   <<ManualLapRow(1, JNum(60000), FALSE)>>,
   <<ManualLapRow(1, JNum(60000), FALSE), ManualLapRow(2, JNum(70000), TRUE)>>}

\* The page after loadData has fetched rows.
LapsPageLoaded(rows) ==
  /\ lapsTable = rows
  /\ phone_sessions = <<>>
  /\ laps = rows
  /\ errorMsg = ""
  /\ qsLaps = <<>>
  /\ qsNextId = 1
  /\ qsSaving = FALSE
  /\ qsError = ""
  /\ qsSuccess = FALSE
  /\ qsInsert = QsIdle
  /\ entry = NoEntry
  /\ ToggleIdle

ToggleInit == \E rows \in FetchedLaps : rows # <<>> /\ LapsPageLoaded(rows)

ToggleNext ==
  \/ \E lapId \in 1..MaxLapRows, loggedIn \in BOOLEAN :
       handleTogglePublic(lapId, loggedIn)
  \/ \E t \in toggles, fails \in BOOLEAN : StoreAppliesToggle(t, fails)
  \/ \E t \in toggles : TogglePublicReturns(t)

\* The entries at the two ends of the accepted range, 0:20.000 and 15:00.000.
ListEntries ==
  {Entry(JNum(0), JNum(20), JNum(0)), Entry(JNum(15), JNum(0), JNum(0))}

LapListInit == \E rows \in FetchedLaps : Len(rows) < 2 /\ LapsPageLoaded(rows)

\* The operations that change the list, each with the answers of success.
LapListNext ==
  \/ \E e \in ListEntries : handleAddLap(e, TRUE, FALSE)
  \/ \E e \in ListEntries : handleAddQsLap(e)
  \/ handleSaveQuickSession(TRUE, TRUE, FALSE)
  \/ SaveQuickSessionReturns
  \/ \E lapId \in 1..MaxLapRows : handleTogglePublic(lapId, TRUE)
  \/ \E t \in toggles : StoreAppliesToggle(t, FALSE)
  \/ \E t \in toggles : TogglePublicReturns(t)

(***************************************************************************)
(* The laps page, the public flag: properties                              *)
(***************************************************************************)

\* Lists a and b hold the same laps in the same order, up to is_public.
SameButPublic(a, b) ==
  /\ Len(a) = Len(b)
  /\ \A i \in 1..Len(a) : [b[i] EXCEPT !.is_public = a[i].is_public] = a[i]

\* The update whose answer the step hands to the page.
Answered(t) == t \in toggles /\ t \notin toggles'

\* C21: handleTogglePublic(lapId, v) changes nothing but is_public of the lap
\* with that id: first in the store, and only after the store has applied the
\* update in the local list, where that lap's is_public becomes v and every
\* other lap and every other field stays as it was. When the driver is not
\* logged in or the update fails, an error is shown and the local list is
\* unchanged.
C21_ToggleFrame ==
  [][ev' \in {"handleTogglePublic", "StoreAppliesToggle", "TogglePublicReturns"}
     => /\ UNCHANGED outsideToggle
        /\ SameButPublic(lapsTable, lapsTable')
        /\ SameButPublic(laps, laps')
        /\ \A i \in 1..Len(lapsTable) :
             lapsTable'[i] # lapsTable[i] =>
               /\ ev' = "StoreAppliesToggle"
               /\ \E t \in toggles :
                    /\ t.stage = "sent" /\ t.lapId = lapsTable[i].id
                    /\ lapsTable'[i].is_public = t.nextValue
                    /\ [t EXCEPT !.stage = "applied"] \in toggles'
        /\ \A i \in 1..Len(laps) :
             laps'[i] # laps[i] =>
               /\ ev' = "TogglePublicReturns"
               /\ \E t \in toggles :
                    /\ Answered(t) /\ t.stage = "applied"
                    /\ t.lapId = laps[i].id
        /\ \A t \in toggles :
             (ev' = "TogglePublicReturns" /\ Answered(t) /\ t.stage = "applied")
               => \A i \in 1..Len(laps) :
                    laps[i].id = t.lapId => laps'[i].is_public = t.nextValue
        /\ (ev' = "handleTogglePublic" /\ toggles' = toggles)
             => errorMsg' = "login" /\ UNCHANGED <<laps, lapsTable>>
        /\ \A t \in toggles :
             (ev' = "TogglePublicReturns" /\ Answered(t) /\ t.stage = "failed")
               => errorMsg' = "store" /\ UNCHANGED <<laps, lapsTable>>]_vars

\* Lap 1 of two listed laps has been made public, in the store and on the page.
C21_Witness ==
  /\ ev = "TogglePublicReturns"
  /\ toggles = {}
  /\ toggleCount = 1
  /\ Len(laps) = 2
  /\ laps[1].id = 1 /\ laps[1].is_public
  /\ laps[2] = ManualLapRow(2, JNum(70000), TRUE)
  /\ lapsTable = laps

\* C25: when several handleTogglePublic requests for the same lap are under
\* way and their answers arrive in any order, then once all of them have
\* completed without error the lap's is_public on the page equals the value
\* the store holds.
C25_TogglesConverge ==
  (toggles = {} /\ ~toggleFailed)
    => \A i \in 1..Len(laps), j \in 1..Len(lapsTable) :
         laps[i].id = lapsTable[j].id
           => laps[i].is_public = lapsTable[j].is_public

\* C22: the list of the laps page is in ascending order of lap_time_ms, and
\* so its first element has the smallest lap time, after any sequence of
\* successful adds, quick-session saves and toggles that starts from the
\* ascending list loadData fetched.
C22_ListSorted ==
  /\ \A i, j \in 1..Len(laps) :
       i < j => Quarters(laps[i].lap_time_ms) <= Quarters(laps[j].lap_time_ms)
  /\ \A i \in 1..Len(laps) :
       Quarters(laps[1].lap_time_ms) <= Quarters(laps[i].lap_time_ms)

\* A quick session with a lap of 0:20.000 was saved beside the fetched lap of
\* 60000 ms, and the new lap, listed first, was then made private.
C22_Witness ==
  /\ ev = "TogglePublicReturns"
  /\ qsSuccess
  /\ laps = <<ManualLapRow(2, JNum(20000), FALSE),
              ManualLapRow(1, JNum(60000), FALSE)>>

(***************************************************************************)
(* The navigation bar (TopNav)                                             *)
(***************************************************************************)

NavUsers == {"u1", "u2"}

NavPaths == {"/", "/timing"}

outsideNav ==
  <<linkVars, timingVars, storeVars, ingestVars, lapsPageVars, fnVars,
    viewVars, toggleVars>>

\* The getUser call of checkAuth: not made, sent, answered by the auth service
\* with result (a user, "none" or "error"), and done.
NavCheck(stage, result) == [stage |-> stage, result |-> result]

\* setIsAuthenticated(false); setUserId(null)
SignedOutState ==
  /\ navIsAuthenticated' = "false"
  /\ navUserId' = "none"

\* The auth service answers the getUser call from the session it holds at
\* that moment, or with an error.
AuthAnswersCheck(fails) ==
  /\ navCheck.stage = "sent"
  /\ navCheck' = NavCheck("answered", IF fails THEN "error" ELSE authSession)
  /\ ev' = "AuthAnswersCheck"
  /\ UNCHANGED <<navIsAuthenticated, navUserId, ctaState, pathname, authSession,
                 navLastEvent, outsideNav>>

\* The awaited getUser returns and checkAuth runs to its end (lines 29-49).
checkAuth ==
  /\ navCheck.stage = "answered"
  /\ navCheck' = NavCheck("done", "none")
  /\ IF navCheck.result \in NavUsers
     THEN /\ navIsAuthenticated' = "true"
          /\ navUserId' = navCheck.result
          /\ ctaState' = "ready"
     ELSE /\ SignedOutState
          /\ UNCHANGED ctaState
  /\ ev' = "checkAuth"
  /\ UNCHANGED <<pathname, authSession, navLastEvent, outsideNav>>

\* The callback of onAuthStateChange (lines 64-81), for the three events it
\* handles; session is the session's user, or "none".
onAuthStateChange(event, session) ==
  /\ IF event = "SIGNED_IN" /\ session # "none"
     THEN /\ navIsAuthenticated' = "true"
          /\ navUserId' = session
          /\ ctaState' = "ready"
     ELSE IF event = "SIGNED_OUT"
     THEN /\ SignedOutState
          /\ ctaState' = "loading"
     ELSE IF event = "TOKEN_REFRESHED" /\ session # "none"
     THEN /\ navIsAuthenticated' = "true"
          /\ navUserId' = session
          /\ UNCHANGED ctaState
     ELSE UNCHANGED <<navIsAuthenticated, navUserId, ctaState>>
  /\ navLastEvent' = event

\* A user signs in and the event is delivered.
SignIn(u) ==
  /\ authSession = "none"
  /\ authSession' = u
  /\ onAuthStateChange("SIGNED_IN", u)
  /\ ev' = "SignIn"
  /\ UNCHANGED <<pathname, navCheck, outsideNav>>

\* The user signs out, here or in another tab, and the event is delivered.
SignOut ==
  /\ authSession # "none"
  /\ authSession' = "none"
  /\ onAuthStateChange("SIGNED_OUT", "none")
  /\ ev' = "SignOut"
  /\ UNCHANGED <<pathname, navCheck, outsideNav>>

\* The access token of the session is refreshed and the event is delivered.
TokenRefresh ==
  /\ authSession # "none"
  /\ onAuthStateChange("TOKEN_REFRESHED", authSession)
  /\ ev' = "TokenRefresh"
  /\ UNCHANGED <<pathname, authSession, navCheck, outsideNav>>

\* const showTimingCta = isAuthenticated === true && !isTimingPage
showTimingCta == navIsAuthenticated = "true" /\ pathname # "/timing"

isCtaDisabled == ctaState \in {"loading", "error"}

\* The button or the floating button is clicked.
handleStartTiming ==
  /\ showTimingCta /\ ~isCtaDisabled
  /\ pathname' = IF ctaState = "ready" THEN "/timing" ELSE pathname
  /\ ev' = "handleStartTiming"
  /\ UNCHANGED <<navIsAuthenticated, navUserId, ctaState, authSession, navCheck,
                 navLastEvent, outsideNav>>

\* A link of the bar is followed.
Navigate(path) ==
  /\ path # pathname
  /\ pathname' = path
  /\ ev' = "Navigate"
  /\ UNCHANGED <<navIsAuthenticated, navUserId, ctaState, authSession, navCheck,
                 navLastEvent, outsideNav>>

\* The bar after its mount effect: checkAuth has sent getUser and the
\* callback is subscribed.
NavInit ==
  /\ navIsAuthenticated = "null"
  /\ navUserId = "none"
  /\ ctaState = "loading"
  /\ pathname \in NavPaths
  /\ authSession \in NavUsers \cup {"none"}
  /\ navCheck = NavCheck("sent", "none")
  /\ navLastEvent = "none"

NavIdle ==
  /\ navIsAuthenticated = "null"
  /\ navUserId = "none"
  /\ ctaState = "loading"
  /\ pathname = "/"
  /\ authSession = "none"
  /\ navCheck = NavCheck("none", "none")
  /\ navLastEvent = "none"

NavNext ==
  \/ \E fails \in BOOLEAN : AuthAnswersCheck(fails)
  \/ checkAuth
  \/ \E u \in NavUsers : SignIn(u)
  \/ SignOut
  \/ TokenRefresh
  \/ handleStartTiming
  \/ \E path \in NavPaths : Navigate(path)

(***************************************************************************)
(* The navigation bar: properties                                          *)
(***************************************************************************)

\* The timing call to action can be clicked.
CtaEnabled == showTimingCta /\ ~isCtaDisabled

\* C30: in the navigation bar isAuthenticated is true exactly when userId is
\* non-null, and the timing call to action is shown and enabled only then;
\* after a SIGNED_OUT event has been delivered the bar stays signed out
\* (isAuthenticated false, userId null, no call to action) until a later
\* SIGNED_IN or TOKEN_REFRESHED event, so a checkAuth that was started before
\* the sign-out and resolves after it does not bring the signed-in state back.
C30_NavAuthState ==
  /\ (navIsAuthenticated = "true") <=> (navUserId # "none")
  /\ (showTimingCta \/ CtaEnabled) => navUserId # "none"
  /\ navLastEvent = "SIGNED_OUT" =>
       /\ navIsAuthenticated = "false"
       /\ navUserId = "none"
       /\ ~showTimingCta

(***************************************************************************)
(* Specifications                                                          *)
(***************************************************************************)

InitLink ==
  /\ LinkInit /\ TimingIdle /\ StoreInit /\ IngestIdle /\ LapsPageIdle
  /\ FnIdle
  /\ ViewsIdle /\ ToggleIdle /\ NavIdle /\ ev = "init"

NextLink == CallBuildTimingDeepLink

SpecLink == InitLink /\ [][NextLink]_vars

InitTiming ==
  /\ TimingInit /\ LinkIdle /\ StoreInit /\ IngestIdle /\ LapsPageIdle
  /\ FnIdle
  /\ ViewsIdle /\ ToggleIdle /\ NavIdle /\ ev = "init"

SpecTiming == InitTiming /\ [][TimingNext]_vars

\* A fallback timer that is pending fires: the event loop runs its callback.
SpecTimingFair ==
  /\ SpecTiming
  /\ WF_vars(\E t \in timers : FallbackTimerFires(t))

InitIngest ==
  /\ StoreInit /\ IngestIdle /\ LinkIdle /\ TimingIdle /\ LapsPageIdle
  /\ FnIdle
  /\ ViewsIdle /\ ToggleIdle /\ NavIdle /\ ev = "init"

SpecIngest == InitIngest /\ [][IngestNext]_vars

InitLaps ==
  /\ LapsPageInit /\ StoreInit /\ IngestIdle /\ LinkIdle /\ TimingIdle
  /\ FnIdle
  /\ ViewsIdle /\ ToggleIdle /\ NavIdle /\ ev = "init"

SpecLaps == InitLaps /\ [][LapsPageNext]_vars

InitConditions ==
  /\ ConditionsInit /\ StoreInit /\ IngestIdle /\ LinkIdle /\ TimingIdle
  /\ LapsPageIdle /\ ViewsIdle /\ ToggleIdle /\ NavIdle /\ ev = "init"

NextConditions == CallNormalizeConditions

SpecConditions == InitConditions /\ [][NextConditions]_vars

InitLapTime ==
  /\ LapTimeInit /\ StoreInit /\ IngestIdle /\ LinkIdle /\ TimingIdle
  /\ LapsPageIdle /\ ViewsIdle /\ ToggleIdle /\ NavIdle /\ ev = "init"

NextLapTime ==
  \/ CallFormatLapTime
  \/ CallParseLapTime

SpecLapTime == InitLapTime /\ [][NextLapTime]_vars

InitViews ==
  /\ ViewsInit /\ LinkIdle /\ TimingIdle /\ IngestIdle /\ LapsPageIdle
  /\ FnIdle /\ ToggleIdle /\ NavIdle /\ ev = "init"

SpecViews == InitViews /\ [][ViewsNext]_vars

InitLapList ==
  /\ LapListInit /\ IngestIdle /\ LinkIdle /\ TimingIdle /\ FnIdle
  /\ ViewsIdle /\ NavIdle /\ ev = "init"

SpecLapList == InitLapList /\ [][LapListNext]_vars

InitToggle ==
  /\ ToggleInit /\ IngestIdle /\ LinkIdle /\ TimingIdle /\ FnIdle
  /\ ViewsIdle /\ NavIdle /\ ev = "init"

SpecToggle == InitToggle /\ [][ToggleNext]_vars

InitNav ==
  /\ NavInit /\ StoreInit /\ IngestIdle /\ LinkIdle /\ TimingIdle /\ FnIdle
  /\ LapsPageIdle /\ ViewsIdle /\ ToggleIdle /\ ev = "init"

SpecNav == InitNav /\ [][NavNext]_vars

====
